---- MODULE Spec2Model ----
(***************************************************************************)
(* A model of neuropy/analyses/placefields.py: the place-field engine      *)
(* (Pf1D, Pf2D, PlacefieldND, PfND).                                        *)
(*                                                                         *)
(* Floating point values are modelled as exact fractions <<n, d>> in       *)
(* lowest terms with d > 0; the value <<0, 0>> is NaN.  N-dimensional      *)
(* numpy arrays are records [shape, data] whose data maps every index      *)
(* tuple (1-based) to a value.                                             *)
(***************************************************************************)
EXTENDS Integers, Sequences, FiniteSets, TLC

VARIABLES call, session, pfs, ret

vars == <<call, session, pfs, ret>>

(***************************************************************************)
(* Bounds of the model.                                                    *)
(***************************************************************************)
\* largest number of spikes handed to one 1-D tuning-map call (one fewer for
\* the 2-D calls)
MaxSpikes == 2
\* number of x bins of the maps handed to the 1-D routines (the 2-D and N-D
\* routines get one x bin fewer, and two y bins)
NBins == 3
\* largest number of neurons (tuning maps) handed to one peak-filter call
MaxNeurons == 2
\* number of position samples (one per tick, at ticks 1..NSamples) of a stream
NSamples == 4

(***************************************************************************)
(* Floats.                                                                 *)
(***************************************************************************)
NaN == <<0, 0>>

\* Python's None, for a value that is otherwise a number or a tuple of numbers:
\* the empty tuple; a scalar v that may be None is the 1-tuple <<v>>
None == <<>>

RECURSIVE GCD(_, _)
GCD(a, b) == IF b = 0 THEN a ELSE GCD(b, a % b)

Abs(n) == IF n < 0 THEN -n ELSE n

\* the float n/d (d > 0), in lowest terms
Frac(n, d) ==
    LET g == GCD(Abs(n), d)
    IN  <<n \div g, d \div g>>

F(n) == <<n, 1>>

Zero == F(0)

IsNaN(a) == a[2] = 0

FAdd(a, b) ==
    IF IsNaN(a) \/ IsNaN(b) THEN NaN
    ELSE Frac(a[1] * b[2] + b[1] * a[2], a[2] * b[2])

FSub(a, b) ==
    IF IsNaN(a) \/ IsNaN(b) THEN NaN
    ELSE Frac(a[1] * b[2] - b[1] * a[2], a[2] * b[2])

FMul(a, b) ==
    IF IsNaN(a) \/ IsNaN(b) THEN NaN
    ELSE Frac(a[1] * b[1], a[2] * b[2])

\* a / b; a zero divisor gives NaN (0/0; x/0 is never formed: the code
\* replaces the zero divisors by NaN before it divides)
FDiv(a, b) ==
    IF IsNaN(a) \/ IsNaN(b) \/ b[1] = 0 THEN NaN
    ELSE IF b[1] < 0 THEN Frac(-(a[1] * b[2]), a[2] * (-b[1]))
    ELSE Frac(a[1] * b[2], a[2] * b[1])

\* comparisons with NaN are all false, as in IEEE 754
FLt(a, b) == ~IsNaN(a) /\ ~IsNaN(b) /\ a[1] * b[2] < b[1] * a[2]

FLe(a, b) == ~IsNaN(a) /\ ~IsNaN(b) /\ a[1] * b[2] <= b[1] * a[2]

FGt(a, b) == FLt(b, a)

FGe(a, b) == FLe(b, a)

FEq(a, b) == ~IsNaN(a) /\ ~IsNaN(b) /\ a = b

\* floor of a non-negative float (the cast numpy makes when it stores a
\* float result in an integer array)
FFloor(a) == IF IsNaN(a) THEN NaN ELSE F(a[1] \div a[2])

RECURSIVE FSumSeq(_)
FSumSeq(s) == IF s = <<>> THEN Zero ELSE FAdd(Head(s), FSumSeq(Tail(s)))

(***************************************************************************)
(* Arrays.                                                                 *)
(***************************************************************************)
RECURSIVE SeqMax(_)
SeqMax(s) ==
    IF s = <<>> THEN 0
    ELSE LET m == SeqMax(Tail(s)) IN IF Head(s) > m THEN Head(s) ELSE m

\* the index tuples of an array of the given shape
Indices(shape) ==
    {ix \in [1..Len(shape) -> 1..SeqMax(shape)] :
        \A k \in 1..Len(shape) : ix[k] <= shape[k]}

\* the function f written out, value by value (np.asarray of a list); TLC would
\* otherwise evaluate the expression of f again each time f is applied
Eager(f) == f @@ <<>>

ArrayOf(shape, data) == [shape |-> shape, data |-> Eager(data)]

\* elementwise a / b of two arrays of one shape
ArrDiv(a, b) ==
    ArrayOf(a.shape, [ix \in Indices(a.shape) |-> FDiv(a.data[ix], b.data[ix])])

\* occupancy[occupancy == 0.0] = np.nan
ZerosToNaN(a) ==
    ArrayOf(a.shape, [ix \in Indices(a.shape) |->
        IF FEq(a.data[ix], Zero) THEN NaN ELSE a.data[ix]])

\* a mutant of NaNToZeros: the NaN entries are not set back to zero
NaNLeftInPlace(a) == a

\* occupancy[np.isnan(occupancy)] = 0.0
NaNToZeros(a) ==
    ArrayOf(a.shape, [ix \in Indices(a.shape) |->
        IF IsNaN(a.data[ix]) THEN Zero ELSE a.data[ix]])

\* a mutant of NanToNum: the NaN entries are left in place
NanToNumKeepsNaN(a) == a

\* np.nan_to_num(a, copy=True, nan=0.0)
NanToNum(a) == NaNToZeros(a)

\* np.nanmax(a): the largest entry that is not NaN (NaN when there is none)
NanMax(a) ==
    LET vals == {a.data[ix] : ix \in Indices(a.shape)} \ {NaN}
    IN  IF vals = {} THEN NaN
        ELSE CHOOSE v \in vals : \A w \in vals : FLe(w, v)

(***************************************************************************)
(* Histograms (np.histogram, np.histogram2d, np.histogramdd with explicit  *)
(* bin edges): bin i holds the values v with edges[i] <= v < edges[i+1],   *)
(* the last bin also holds v = edges[n+1]; NaN falls in no bin.            *)
(***************************************************************************)
BinIndex(v, edges) ==
    LET n == Len(edges) - 1
    IN  IF IsNaN(v) \/ n < 1 THEN 0
        ELSE IF FLt(v, edges[1]) \/ FGt(v, edges[n + 1]) THEN 0
        ELSE IF FEq(v, edges[n + 1]) THEN n
        ELSE CHOOSE i \in 1..n : FLe(edges[i], v) /\ FLt(v, edges[i + 1])

BinShape(bins) == [k \in 1..Len(bins) |-> Len(bins[k]) - 1]

\* points: a sequence of coordinate tuples; bins: one edge sequence per dimension
HistogramDD(points, bins) ==
    LET shape == BinShape(bins)
    IN  ArrayOf(shape, [ix \in Indices(shape) |->
            F(Cardinality({p \in 1..Len(points) :
                \A k \in 1..Len(bins) : BinIndex(points[p][k], bins[k]) = ix[k]}))])

Zip1(xs) == Eager([p \in 1..Len(xs) |-> <<xs[p]>>])

Zip2(xs, ys) == Eager([p \in 1..Len(xs) |-> <<xs[p], ys[p]>>])

(***************************************************************************)
(* Gaussian smoothing (scipy.ndimage.gaussian_filter1d / gaussian_filter,  *)
(* mode 'reflect').  The kernel of sigma is modelled by a normalised,      *)
(* symmetric, strictly positive kernel of radius sigma; sigma 0 is the     *)
(* identity, as in scipy.  Sigmas are small naturals.                      *)
(***************************************************************************)
KernelWeight(sigma, k) == Frac(sigma + 1 - Abs(k), (sigma + 1) * (sigma + 1))

\* 'reflect': (d c b a | a b c d | d c b a)
RECURSIVE Reflect(_, _)
Reflect(i, n) ==
    IF i < 1 THEN Reflect(1 - i, n)
    ELSE IF i > n THEN Reflect(2 * n + 1 - i, n)
    ELSE i

\* the filter along one axis of an array
GaussianFilterAxis(a, axis, sigma) ==
    IF sigma = 0 THEN a
    ELSE ArrayOf(a.shape, [ix \in Indices(a.shape) |->
            FSumSeq([j \in 1..(2 * sigma + 1) |->
                LET k == j - sigma - 1
                IN  FMul(KernelWeight(sigma, k),
                         a.data[[ix EXCEPT ![axis] = Reflect(ix[axis] + k, a.shape[axis])]])])])

\* gaussian_filter(a, sigma=sigmas): one sigma per axis, axis after axis
RECURSIVE GaussianFilterFrom(_, _, _)
GaussianFilterFrom(a, sigmas, axis) ==
    IF axis > Len(a.shape) THEN a
    ELSE GaussianFilterFrom(GaussianFilterAxis(a, axis, sigmas[axis]), sigmas, axis + 1)

GaussianFilter(a, sigmas) == GaussianFilterFrom(a, sigmas, 1)

GaussianFilter1d(a, sigma) == GaussianFilterAxis(a, 1, sigma)

\* an integer array stays an integer array: the filtered values are truncated
GaussianFilter1dInt(a, sigma) ==
    LET g == GaussianFilter1d(a, sigma)
    IN  ArrayOf(g.shape, [ix \in Indices(g.shape) |-> FFloor(g.data[ix])])

(***************************************************************************)
(* PfnDMixin: the smoothing policy flags.                                  *)
(***************************************************************************)
should_smooth_speed == FALSE

should_smooth_spikes_map == FALSE

should_smooth_spatial_occupancy_map == FALSE

should_smooth_final_tuning_map == TRUE

\* (smooth is not None) and (smooth > 0.0)
Positive(smooth) == smooth # None /\ smooth[1] > 0

(***************************************************************************)
(* Pf1D.  A result holds what the routine returns and, as occupancy, the   *)
(* contents of the caller's occupancy array when the routine returns (the  *)
(* routine writes into that array).                                        *)
(***************************************************************************)
Pf1D_compute_spikes_map(spk_x, xbin, smooth) ==
    LET unsmoothed_spikes_map == HistogramDD(Zip1(spk_x), <<xbin>>)
    IN  [spikes_map |-> IF Positive(smooth)
                        THEN GaussianFilter1dInt(unsmoothed_spikes_map, smooth[1])
                        ELSE unsmoothed_spikes_map,
         unsmoothed_spikes_map |-> unsmoothed_spikes_map]

\* lines 507-512 of Pf1D (575-580 of Pf2D, 667-672 of PlacefieldND): the division
\* by the occupancy with its zero bins set to NaN, and the restoring of the zeros
OccupancyWeighted(m, occupancy) ==
    LET nan_occupancy == ZerosToNaN(occupancy)
    IN  [never_smoothed |-> NanToNum(ArrDiv(m.unsmoothed_spikes_map, nan_occupancy)),
         unsmoothed |-> NanToNum(ArrDiv(m.spikes_map, nan_occupancy)),
         occupancy |-> NaNToZeros(nan_occupancy)]

Pf1D_compute_tuning_map(spk_x, xbin, occupancy, smooth) ==
    LET smooth_spikes_map == IF ~should_smooth_spikes_map THEN None ELSE smooth
        m == Pf1D_compute_spikes_map(spk_x, xbin, smooth_spikes_map)
        w == OccupancyWeighted(m, occupancy)
    IN  [tuning |-> IF should_smooth_final_tuning_map /\ Positive(smooth)
                    THEN GaussianFilter1d(w.unsmoothed, smooth[1])
                    ELSE w.unsmoothed,
         never_smoothed |-> w.never_smoothed,
         spikes_map |-> m.spikes_map,
         unsmoothed_spikes_map |-> m.unsmoothed_spikes_map,
         occupancy |-> w.occupancy]

(***************************************************************************)
(* Pf2D.                                                                   *)
(***************************************************************************)
BothPositive(smooth) == smooth # None /\ (smooth[1] > 0 /\ smooth[2] > 0)

Pf2D_compute_spikes_map(spk_x, spk_y, xbin, ybin, smooth) ==
    LET unsmoothed_spikes_map == HistogramDD(Zip2(spk_x, spk_y), <<xbin, ybin>>)
    IN  [spikes_map |-> IF BothPositive(smooth)
                        THEN GaussianFilter(unsmoothed_spikes_map, <<smooth[2], smooth[1]>>)
                        ELSE unsmoothed_spikes_map,
         unsmoothed_spikes_map |-> unsmoothed_spikes_map]

Pf2D_compute_tuning_map(spk_x, spk_y, xbin, ybin, occupancy, smooth) ==
    LET smoothing_widths_spikes_map == IF ~should_smooth_spikes_map THEN None ELSE smooth
        m == Pf2D_compute_spikes_map(spk_x, spk_y, xbin, ybin, smoothing_widths_spikes_map)
        w == OccupancyWeighted(m, occupancy)
    IN  [tuning |-> IF should_smooth_final_tuning_map /\ BothPositive(smooth)
                    THEN GaussianFilter(w.unsmoothed, <<smooth[2], smooth[1]>>)
                    ELSE w.unsmoothed,
         never_smoothed |-> w.never_smoothed,
         spikes_map |-> m.spikes_map,
         unsmoothed_spikes_map |-> m.unsmoothed_spikes_map,
         occupancy |-> w.occupancy]

(***************************************************************************)
(* PlacefieldND.                                                           *)
(***************************************************************************)
AnyPositive(smooth) == smooth # None /\ \E k \in 1..Len(smooth) : smooth[k] > 0

PlacefieldND_compute_spikes_map(spikes, bins, smooth) ==
    LET unsmoothed_spikes_map == HistogramDD(spikes, bins)
    IN  [spikes_map |-> IF AnyPositive(smooth)
                        THEN GaussianFilter(unsmoothed_spikes_map, smooth)
                        ELSE unsmoothed_spikes_map,
         unsmoothed_spikes_map |-> unsmoothed_spikes_map]

PlacefieldND_compute_tuning_map(spikes, bins, occupancy, smooth) ==
    LET smoothing_widths_spikes_map == IF ~should_smooth_spikes_map THEN None ELSE smooth
        m == PlacefieldND_compute_spikes_map(spikes, bins, smoothing_widths_spikes_map)
        w == OccupancyWeighted(m, occupancy)
    IN  [tuning |-> IF should_smooth_final_tuning_map /\ AnyPositive(smooth)
                    THEN GaussianFilter(w.unsmoothed, smooth)
                    ELSE w.unsmoothed,
         never_smoothed |-> w.never_smoothed,
         spikes_map |-> m.spikes_map,
         unsmoothed_spikes_map |-> m.unsmoothed_spikes_map,
         occupancy |-> w.occupancy]

(***************************************************************************)
(* PfND._build_peak_frate_filter.                                          *)
(***************************************************************************)
\* a mutant of PeakAbove: the comparison is turned around
PeakBelow(tuning_map, frate_thresh) == FLt(NanMax(tuning_map), frate_thresh)

\* a mutant of PeakAbove: the threshold is inclusive
PeakAtOrAbove(tuning_map, frate_thresh) == FGe(NanMax(tuning_map), frate_thresh)

\* np.nanmax(tuning_maps[neuron_indx]) > frate_thresh
PeakAbove(tuning_map, frate_thresh) == FGt(NanMax(tuning_map), frate_thresh)

\* included_thresh_neurons_indx, in range(n_neurons) order (indices are 1-based here)
RECURSIVE IncludedFrom(_, _, _)
IncludedFrom(tuning_maps, frate_thresh, i) ==
    IF i > Len(tuning_maps) THEN <<>>
    ELSE (IF PeakAbove(tuning_maps[i], frate_thresh) THEN <<i>> ELSE <<>>)
         \o IncludedFrom(tuning_maps, frate_thresh, i + 1)

build_peak_frate_filter(tuning_maps, frate_thresh) ==
    IncludedFrom(tuning_maps, frate_thresh, 1)

\* filter_function: lambda list_: [list_[_] for _ in included_thresh_neurons_indx]
filter_function(included, list_) == Eager([j \in 1..Len(included) |-> list_[included[j]]])

(***************************************************************************)
(* Collaborators of neuropy.utils.mixins.time_slicing.  A position stream  *)
(* is a time-ordered sequence of rows [t, x, y, speed], a spike stream a   *)
(* time-ordered sequence of rows [t, aclu], an epochs dataframe a sequence *)
(* of rows with fields start and stop.  Times and speeds are integers.     *)
(***************************************************************************)
\* the 0-based row number of the epoch [start, stop) holding t, or -1
EpochIdOf(t, epochs_df) ==
    LET holding == {i \in 1..Len(epochs_df) :
                        epochs_df[i].start <= t /\ t < epochs_df[i].stop}
    IN  IF holding = {} THEN -1
        ELSE (CHOOSE i \in holding : \A j \in holding : j <= i) - 1

\* add_epochs_id_identity(df, epochs_df, ..., no_interval_fill_value=-1): the ids, row by row
add_epochs_id_identity(df, epochs_df) ==
    [r \in 1..Len(df) |-> EpochIdOf(df[r].t, epochs_df)]

RECURSIVE SelectRows(_, _, _)
SelectRows(df, keep, r) ==
    IF r > Len(df) THEN <<>>
    ELSE (IF keep[r] THEN <<df[r]>> ELSE <<>>) \o SelectRows(df, keep, r + 1)

\* df.time_sliced(starts, stops): the rows whose time lies in some [start, stop]
time_sliced(df, spans) ==
    SelectRows(df, [r \in 1..Len(df) |->
        \E i \in 1..Len(spans) : spans[i].start <= df[r].t /\ df[r].t <= spans[i].stop], 1)

(***************************************************************************)
(* PfND.filtered_by_speed.                                                 *)
(***************************************************************************)
\* a mutant of BelowSpeedThresh: a sample at the threshold is kept
AtOrBelowSpeedThresh(row, speed_thresh) == row.speed <= speed_thresh[1]

\* position_df[speed_column_name] < speed_thresh
BelowSpeedThresh(row, speed_thresh) == row.speed < speed_thresh[1]

\* position_df at line 1282: the rows with their decoder_epoch_id, those of no
\* epoch and (with a threshold) those not below the threshold dropped
SpeedFilteredRows(epochs_df, position_df, speed_thresh) ==
    LET ids == add_epochs_id_identity(position_df, epochs_df)
        withIds == [r \in 1..Len(position_df) |->
                        [t |-> position_df[r].t, speed |-> position_df[r].speed,
                         decoder_epoch_id |-> ids[r]]]
    IN  SelectRows(withIds, [r \in 1..Len(withIds) |->
            /\ withIds[r].decoder_epoch_id # -1
            /\ (speed_thresh # None => BelowSpeedThresh(withIds[r], speed_thresh))], 1)

\* a mutant of GroupAgg: the stop is the stop of the group's first sample
GroupAggStopsAtFirst(rows, id) ==
    LET g == SelectRows(rows, [r \in 1..Len(rows) |-> rows[r].decoder_epoch_id = id], 1)
    IN  [label |-> id, start |-> g[1].t, stop |-> g[1].t, n_samples |-> Len(g),
         duration |-> 0]

\* one group of groupby(['decoder_epoch_id']).agg(first, last, count) with the
\* columns renamed and the duration added
GroupAgg(rows, id) ==
    LET g == SelectRows(rows, [r \in 1..Len(rows) |-> rows[r].decoder_epoch_id = id], 1)
    IN  [label |-> id, start |-> g[1].t, stop |-> g[Len(g)].t, n_samples |-> Len(g),
         duration |-> g[Len(g)].t - g[1].t]

\* the groups, in increasing id order
RECURSIVE GroupsFrom(_, _, _)
GroupsFrom(rows, id, maxId) ==
    IF id > maxId THEN <<>>
    ELSE (IF \E r \in 1..Len(rows) : rows[r].decoder_epoch_id = id
          THEN <<GroupAgg(rows, id)>> ELSE <<>>) \o GroupsFrom(rows, id + 1, maxId)

filtered_by_speed(epochs_df, position_df, speed_thresh) ==
    GroupsFrom(SpeedFilteredRows(epochs_df, position_df, speed_thresh), 0, Len(epochs_df) - 1)

(***************************************************************************)
(* More numpy helpers.                                                     *)
(***************************************************************************)
\* a / (b + 1e-16): the 1e-16 only matters when b is 0, where 0 / 1e-16 is 0
\* (a positive a is never divided by a zero b: a sampling rate is positive,
\* and a sum of counts is 0 only when every count is 0)
DivPlusEps(a, b) == IF b = Zero THEN (IF a = Zero THEN Zero ELSE NaN) ELSE FDiv(a, b)

\* np.nanmin / np.nanmax of a sequence of floats (NaN when none is a number)
SeqNanMin(q) ==
    LET vals == {q[i] : i \in 1..Len(q)} \ {NaN}
    IN  IF vals = {} THEN NaN ELSE CHOOSE v \in vals : \A w \in vals : FLe(v, w)

SeqNanMax(q) ==
    LET vals == {q[i] : i \in 1..Len(q)} \ {NaN}
    IN  IF vals = {} THEN NaN ELSE CHOOSE v \in vals : \A w \in vals : FLe(w, v)

\* the least integer n with n >= a, for a float a >= 0
CeilInt(a) == (a[1] + a[2] - 1) \div a[2]

\* np.interp(t, xp, fp) for increasing integer times xp: the end values outside
\* the range, fp[j] at xp[j], linear in between (NaN when a neighbour is NaN)
Interp(t, xp, fp) ==
    IF t <= xp[1] THEN fp[1]
    ELSE IF t >= xp[Len(xp)] THEN fp[Len(xp)]
    ELSE LET j == CHOOSE i \in 1..(Len(xp) - 1) : xp[i] <= t /\ t < xp[i + 1]
         IN  IF xp[j] = t THEN fp[j]
             ELSE FAdd(fp[j], FMul(FDiv(FSub(fp[j + 1], fp[j]), F(xp[j + 1] - xp[j])),
                                   F(t - xp[j])))

\* the distinct values of a column, increasing (np.unique)
RECURSIVE SortedFrom(_, _, _)
SortedFrom(S, v, hi) ==
    IF v > hi THEN <<>>
    ELSE (IF v \in S THEN <<v>> ELSE <<>>) \o SortedFrom(S, v + 1, hi)

(***************************************************************************)
(* Collaborators: spatial binning (neuropy.utils.mixins.binning_helpers,   *)
(* neuropy.utils.mathutil), the spikes accessor and the Ratemap.           *)
(***************************************************************************)
\* the edges min' + i * step, i = 0..n, with n = ceil((max - min) / step) and
\* the bounds grown symmetrically to n * step
BinEdges(range, step) ==
    LET extent == FSub(range[2], range[1])
        n == CeilInt(FDiv(extent, step))
        lo == FSub(range[1], FDiv(FSub(FMul(F(n), step), extent), F(2)))
    IN  Eager([i \in 1..(n + 1) |-> FAdd(lo, FMul(F(i - 1), step))])

\* bin_pos_nD(x, y, bin_size=bin_size): (xbin, ybin, bin_info), ybin None without y
bin_pos_nD(x_range, y_range, bin_size) ==
    LET xbin == BinEdges(x_range, bin_size[1])
    IN  IF y_range = None
        THEN [xbin |-> xbin, ybin |-> None,
              bin_info |-> [mode |-> "bin_size", xstep |-> bin_size[1],
                            xnum_bins |-> Len(xbin)]]
        ELSE LET ybin == BinEdges(y_range, bin_size[2])
             IN  [xbin |-> xbin, ybin |-> ybin,
                  bin_info |-> [mode |-> "bin_size", xstep |-> bin_size[1],
                                xnum_bins |-> Len(xbin), ystep |-> bin_size[2],
                                ynum_bins |-> Len(ybin)]]

\* compute_grid_bin_bounds(x, y): the observed (min, max) per dimension
compute_grid_bin_bounds(x, y) ==
    <<  <<SeqNanMin(x), SeqNanMax(x)>>,
        IF y = None THEN None ELSE <<SeqNanMin(y), SeqNanMax(y)>> >>

\* build_df_discretized_binned_position_columns: the rows with the number of the
\* bin of x (and of y when the dataframe has a y column) attached
build_position_df_discretized_binned_positions(pos_df, xbin, ybin) ==
    Eager([r \in 1..Len(pos_df) |->
        [t |-> pos_df[r].t, x |-> pos_df[r].x, y |-> pos_df[r].y, speed |-> pos_df[r].speed,
         binned_x |-> BinIndex(pos_df[r].x, xbin),
         binned_y |-> IF pos_df[r].y = None THEN None ELSE <<BinIndex(pos_df[r].y, ybin)>>]])

\* spikes_df.spikes.neuron_ids: the distinct aclu values, increasing
neuron_ids(spikes_df) ==
    SortedFrom({spikes_df[r].aclu : r \in 1..Len(spikes_df)}, 0, MaxNeurons + 1)

\* spikes_df.spikes.neuron_probe_tuple_ids: one (shank, cluster) tuple per neuron id
ProbeTupleId(aclu) == <<1, aclu>>

neuron_probe_tuple_ids(spikes_df) ==
    LET ids == neuron_ids(spikes_df) IN Eager([i \in 1..Len(ids) |-> ProbeTupleId(ids[i])])

Col(df, name) == Eager([r \in 1..Len(df) |-> df[r][name]])

\* df.dropna(axis=0, how='any', subset=['x'] or ['x', 'y'])
dropna(df, ndim) ==
    SelectRows(df, [r \in 1..Len(df) |->
        ~IsNaN(df[r].x) /\ (ndim > 1 => ~IsNaN(df[r].y))], 1)

(***************************************************************************)
(* Occupancy.                                                              *)
(***************************************************************************)
\* the seconds occupancy (the normalized occupancy is computed and dropped)
normalized_occupancy(raw_occupancy, position_srate) ==
    ArrayOf(raw_occupancy.shape, [ix \in Indices(raw_occupancy.shape) |->
        DivPlusEps(raw_occupancy.data[ix], F(position_srate))])

Pf1D_compute_occupancy(x, xbin, position_srate, smooth) ==
    LET unsmoothed == HistogramDD(Zip1(x), <<xbin>>)
        num_pos_samples_occupancy ==
            IF Positive(smooth) THEN GaussianFilter1dInt(unsmoothed, smooth[1]) ELSE unsmoothed
    IN  [occupancy |-> normalized_occupancy(num_pos_samples_occupancy, position_srate),
         unsmoothed_occupancy |-> normalized_occupancy(unsmoothed, position_srate)]

Pf2D_compute_occupancy(x, y, xbin, ybin, position_srate, smooth) ==
    LET unsmoothed == HistogramDD(Zip2(x, y), <<xbin, ybin>>)
        num_pos_samples_occupancy ==
            IF BothPositive(smooth)
            THEN GaussianFilter(unsmoothed, <<smooth[2], smooth[1]>>) ELSE unsmoothed
    IN  [occupancy |-> normalized_occupancy(num_pos_samples_occupancy, position_srate),
         unsmoothed_occupancy |-> normalized_occupancy(unsmoothed, position_srate)]

(***************************************************************************)
(* PfND.  An attribute that can be None holds None or Some(value).  An     *)
(* operation yields [raised, self]: raised is None when it returns and     *)
(* Some(exception) when it raises, self is the object as the operation     *)
(* leaves it.                                                              *)
(***************************************************************************)
Some(v) == <<v>>

Val(o) == o[1]

Returned(self) == [raised |-> None, self |-> self]

Raised(exception, self) == [raised |-> Some(exception), self |-> self]

\* PlacefieldComputationParameters.__init__ called with 2-element tuples
PlacefieldComputationParameters(speed_thresh, grid_bin, grid_bin_bounds, smooth, frate_thresh) ==
    [speed_thresh |-> speed_thresh, grid_bin |-> grid_bin, grid_bin_bounds |-> grid_bin_bounds,
     smooth |-> smooth, frate_thresh |-> frate_thresh, is_directional |-> FALSE]

\* the attrs-generated initializer, before __attrs_post_init__
PfND_fields(spikes_df, position, epochs, config) ==
    [spikes_df |-> spikes_df, position |-> position, epochs |-> epochs, config |-> config,
     position_srate |-> None, included_thresh_neurons_indx |-> None, ratemap |-> None,
     ratemap_spiketrains |-> None, ratemap_spiketrains_pos |-> None,
     filtered_pos_df |-> None, filtered_spikes_df |-> None,
     ndim |-> None, xbin |-> None, ybin |-> None, bin_info |-> None]

\* a range whose ends coincide cannot be binned
Degenerate(range) == IsNaN(range[1]) \/ ~FLt(range[1], range[2])

\* lines 857-881: the range of each dimension, from the configuration when it
\* gives one and from the filtered positions otherwise
GridBinBounds(self, ndim, filtered_pos_df) ==
    LET x == Col(filtered_pos_df, "x")
    IN  IF ndim > 1
        THEN IF self.config.grid_bin_bounds = None
                \/ self.config.grid_bin_bounds[1] = None \/ self.config.grid_bin_bounds[2] = None
             THEN compute_grid_bin_bounds(x, Col(filtered_pos_df, "y"))
             ELSE self.config.grid_bin_bounds
        ELSE << IF self.config.grid_bin_bounds[1] = None
                THEN compute_grid_bin_bounds(x, None)[1]
                ELSE self.config.grid_bin_bounds[1], None >>

\* a mutant of SpeedFilteredSpikes: the spikes keep the slicing by the epochs given
SpikesOfGivenEpochs(spk_df, epochs_df, speed_filtered_epochs_df) ==
    time_sliced(spk_df, epochs_df)

\* line 819: the raw spikes sliced by the speed-filtered epochs
SpeedFilteredSpikes(spk_df, epochs_df, speed_filtered_epochs_df) ==
    time_sliced(spk_df, speed_filtered_epochs_df)

setup(self, position, spikes_df, epochs) ==
    LET ndim == position.ndim
        pos_df == position.df
        spk_df == spikes_df
        spans == IF epochs # None THEN Val(epochs)
                 ELSE <<[start |-> pos_df[1].t, stop |-> pos_df[Len(pos_df)].t]>>
        sliced_pos_df == dropna(time_sliced(pos_df, spans), ndim)
        sliced == [self EXCEPT !.ndim = Some(ndim),
                               !.position_srate = Some(position.sampling_rate),
                               !.filtered_spikes_df = Some(time_sliced(spk_df, spans)),
                               !.filtered_pos_df = Some(sliced_pos_df)]
    IN  IF epochs = None
        THEN Raised("AttributeError", sliced)    \* epochs.to_dataframe() at line 815
        ELSE
        LET speed_filtered_epochs_df ==
                filtered_by_speed(Val(epochs), sliced_pos_df, self.config.speed_thresh)
            filtered_pos_df == time_sliced(pos_df, speed_filtered_epochs_df)
            spikes == SpeedFilteredSpikes(spk_df, Val(epochs), speed_filtered_epochs_df)
            resliced == [sliced EXCEPT !.filtered_spikes_df = Some(spikes),
                                       !.filtered_pos_df = Some(filtered_pos_df)]
        IN  IF filtered_pos_df = <<>>
            THEN Raised("ValueError", resliced)  \* np.interp of no sample at line 827
            ELSE
            LET t == Col(filtered_pos_df, "t")
                speed == Eager([r \in 1..Len(filtered_pos_df) |-> F(filtered_pos_df[r].speed)])
                filtered_spikes_df ==
                    Eager([r \in 1..Len(spikes) |->
                        [t |-> spikes[r].t, aclu |-> spikes[r].aclu,
                         speed |-> Interp(spikes[r].t, t, speed)]])
                grid_bin_bounds == GridBinBounds(self, ndim, filtered_pos_df)
                with_speed == [resliced EXCEPT !.filtered_spikes_df = Some(filtered_spikes_df)]
            IN  IF Degenerate(grid_bin_bounds[1])
                   \/ (ndim > 1 /\ Degenerate(grid_bin_bounds[2]))
                THEN Raised("ValueError", with_speed)
                ELSE
                LET b == bin_pos_nD(grid_bin_bounds[1], grid_bin_bounds[2], self.config.grid_bin)
                IN  Returned([with_speed EXCEPT
                        !.xbin = b.xbin, !.ybin = b.ybin, !.bin_info = Some(b.bin_info),
                        !.filtered_pos_df = Some(build_position_df_discretized_binned_positions(
                                                    filtered_pos_df, b.xbin, b.ybin))])

\* cell_grouped_spikes_df.get_group(a_neuron_id)
get_group(spikes_df, a_neuron_id) ==
    SelectRows(spikes_df, [r \in 1..Len(spikes_df) |-> spikes_df[r].aclu = a_neuron_id], 1)

\* lines 928-950: one entry per neuron of ids[i..], each computed with the
\* occupancy array as the neuron before left it
RECURSIVE CellLoop(_, _, _, _)
CellLoop(self, ids, occupancy, i) ==
    IF i > Len(ids) THEN <<>>
    ELSE LET pos == Val(self.filtered_pos_df)
             t == Col(pos, "t")
             cell_spike_times == Col(get_group(Val(self.filtered_spikes_df), ids[i]), "t")
             x == Col(pos, "x")
             y == Col(pos, "y")
             spk_x == Eager([k \in 1..Len(cell_spike_times) |-> Interp(cell_spike_times[k], t, x)])
             spk_y == Eager([k \in 1..Len(cell_spike_times) |-> Interp(cell_spike_times[k], t, y)])
             maps == IF Val(self.ndim) > 1
                     THEN Pf2D_compute_tuning_map(spk_x, spk_y, self.xbin, self.ybin,
                                                  occupancy, self.config.smooth)
                     ELSE Pf1D_compute_tuning_map(spk_x, self.xbin, occupancy,
                                                  Some(self.config.smooth[1]))
         IN  <<[spk_t |-> cell_spike_times,
                spk_pos |-> IF Val(self.ndim) > 1 THEN <<spk_x, spk_y>> ELSE <<spk_x>>,
                maps |-> maps]>>
             \o CellLoop(self, ids, maps.occupancy, i + 1)

\* the Ratemap built at line 964
Ratemap(tuning_curves, unsmoothed_maps, spikes_maps, xbin, ybin, ids, occupancy, extended_ids) ==
    [tuning_curves |-> tuning_curves, unsmoothed_tuning_maps |-> unsmoothed_maps,
     spikes_maps |-> spikes_maps, xbin |-> xbin, ybin |-> ybin, neuron_ids |-> ids,
     occupancy |-> occupancy, neuron_extended_ids |-> extended_ids]

\* a mutant of FilteredNeuronIds: the identities are not restricted to the included neurons
UnfilteredNeuronIds(included, ids) == ids

\* line 961: the identities of the included neurons
FilteredNeuronIds(included, ids) == filter_function(included, ids)

\* lines 954-966: the peak filter and the results restricted to the included neurons
Assemble(self, ids, extended_ids, cells, occupancy, included) ==
    [self EXCEPT
        !.included_thresh_neurons_indx = Some(included),
        !.ratemap = Some(Ratemap(
            filter_function(included, [i \in 1..Len(cells) |-> cells[i].maps.tuning]),
            filter_function(included, [i \in 1..Len(cells) |-> cells[i].maps.never_smoothed]),
            filter_function(included, [i \in 1..Len(cells) |-> cells[i].maps.spikes_map]),
            self.xbin, self.ybin, FilteredNeuronIds(included, ids), occupancy,
            filter_function(included, extended_ids))),
        !.ratemap_spiketrains =
            Some(filter_function(included, [i \in 1..Len(cells) |-> cells[i].spk_t])),
        !.ratemap_spiketrains_pos =
            Some(filter_function(included, [i \in 1..Len(cells) |-> cells[i].spk_pos]))]

\* lines 918-954: the per-neuron loop over the occupancy computed before it
ComputeCells(self, ids, occupancy, cells) ==
    Assemble(self, ids, neuron_probe_tuple_ids(Val(self.filtered_spikes_df)), cells,
             IF cells = <<>> THEN occupancy ELSE cells[Len(cells)].maps.occupancy,
             build_peak_frate_filter([i \in 1..Len(cells) |-> cells[i].maps.tuning],
                                     self.config.frate_thresh))

ComputeFrom(self, ids, occupancy) ==
    ComputeCells(self, ids, occupancy, CellLoop(self, ids, occupancy, 1))

\* lines 908-915: the occupancy, never smoothed as should_smooth_spatial_occupancy_map is off
Occupancy(self, pos, smooth_occupancy_map) ==
    IF Val(self.ndim) > 1
    THEN Pf2D_compute_occupancy(Col(pos, "x"), Col(pos, "y"), self.xbin, self.ybin,
                                Val(self.position_srate), smooth_occupancy_map).occupancy
    ELSE Pf1D_compute_occupancy(Col(pos, "x"), self.xbin, Val(self.position_srate),
                                Some(smooth_occupancy_map[1])).occupancy

compute(self) ==
    ComputeFrom(self, neuron_ids(Val(self.filtered_spikes_df)),
                Occupancy(self, Val(self.filtered_pos_df),
                          IF ~should_smooth_spatial_occupancy_map THEN <<0, 0>>
                          ELSE self.config.smooth))

\* PfND(spikes_df, position, epochs, config, setup_on_init=True, compute_on_init=True)
PfND(spikes_df, position, epochs, config) ==
    LET s == setup(PfND_fields(Some(spikes_df), Some(position), epochs, config),
                   position, spikes_df, epochs)
    IN  IF s.raised # None THEN s ELSE Returned(compute(s.self))

\* np.isin(copy_pf._filtered_spikes_df.aclu, ids)
get_by_id(self, ids) ==
    LET copy_pf == self
    IN  IF copy_pf.filtered_spikes_df = None
        THEN Raised("AttributeError", copy_pf)    \* None.aclu at line 1173
        ELSE LET df == Val(copy_pf.filtered_spikes_df)
                 kept == SelectRows(df, [r \in 1..Len(df) |-> df[r].aclu \in ids], 1)
             IN  Returned(compute([copy_pf EXCEPT !.filtered_spikes_df = Some(kept)]))

\* a mutant of ShouldConform: the bins are replaced when the target has no more of them
ShouldConformToCoarserOrEqual(self, target_pf, force_recompute) ==
    \/ force_recompute
    \/ Len(self.xbin) >= Len(target_pf.xbin)
    \/ (Val(self.ndim) > 1 /\ Len(self.ybin) >= Len(target_pf.ybin))

\* the condition of line 1197
ShouldConform(self, target_pf, force_recompute) ==
    \/ force_recompute
    \/ Len(self.xbin) < Len(target_pf.xbin)
    \/ (Val(self.ndim) > 1 /\ Len(self.ybin) < Len(target_pf.ybin))

\* [raised, self, did_update_bins]
conform_to_position_bins(self, target_pf, force_recompute) ==
    IF ~force_recompute /\ ~(Len(self.xbin) < Len(target_pf.xbin))
       /\ Val(self.ndim) > 1 /\ target_pf.ybin = None
    THEN [raised |-> Some("TypeError"), self |-> self, did_update_bins |-> FALSE]
    ELSE IF ShouldConform(self, target_pf, force_recompute)
    THEN IF self.filtered_pos_df = None
         THEN [raised |-> Some("AttributeError"),
               self |-> [self EXCEPT !.xbin = target_pf.xbin, !.ybin = target_pf.ybin,
                                     !.bin_info = target_pf.bin_info,
                                     !.config.grid_bin = target_pf.config.grid_bin],
               did_update_bins |-> FALSE]
         ELSE
         LET rebinned == [self EXCEPT !.xbin = target_pf.xbin, !.ybin = target_pf.ybin,
                                      !.bin_info = target_pf.bin_info,
                                      !.config.grid_bin = target_pf.config.grid_bin]
             columns == build_position_df_discretized_binned_positions(
                            Val(self.filtered_pos_df), rebinned.xbin, rebinned.ybin)
         IN  [raised |-> None,
              self |-> compute([rebinned EXCEPT !.filtered_pos_df = Some(columns)]),
              did_update_bins |-> TRUE]
    ELSE [raised |-> None, self |-> self, did_update_bins |-> FALSE]

\* Position.drop_dimensions_above(1): the y column is removed
drop_dimensions_above_1(position) ==
    [ndim |-> 1, sampling_rate |-> position.sampling_rate,
     df |-> Eager([r \in 1..Len(position.df) |-> [position.df[r] EXCEPT !.y = None]])]

\* the per-bin maximum over the last axis of a 2-D array
MaxOverLastAxis(a) ==
    ArrayOf(<<a.shape[1]>>, [ix \in Indices(<<a.shape[1]>>) |->
        LET vals == {a.data[<<ix[1], j>>] : j \in 1..a.shape[2]} \ {NaN}
        IN  IF vals = {} THEN NaN ELSE CHOOSE v \in vals : \A w \in vals : FLe(w, v)])

\* Ratemap.to_1D_maximum_projection
Ratemap_to_1D_maximum_projection(ratemap) ==
    [ratemap EXCEPT
        !.tuning_curves = Eager([i \in 1..Len(@) |-> MaxOverLastAxis(@[i])]),
        !.unsmoothed_tuning_maps = Eager([i \in 1..Len(@) |-> MaxOverLastAxis(@[i])]),
        !.spikes_maps = Eager([i \in 1..Len(@) |-> MaxOverLastAxis(@[i])]),
        !.occupancy = MaxOverLastAxis(@),
        !.ybin = None]

\* the rows with a defined x and, when the column is there, a binned_x
drop_extra_position_info(pf) ==
    LET df == Val(pf.filtered_pos_df)
    IN  [pf EXCEPT !.filtered_pos_df =
            Some(SelectRows(df, [r \in 1..Len(df) |->
                    ~IsNaN(df[r].x) /\ df[r].binned_x # 0], 1))]

build_1D_maximum_projection(pf2D) ==
    IF ~(Val(pf2D.ndim) > 1) THEN Raised("AssertionError", pf2D)
    ELSE IF pf2D.position = None THEN Raised("AttributeError", pf2D)
    ELSE LET position == drop_dimensions_above_1(Val(pf2D.position))
             new_pf1D_ratemap == Ratemap_to_1D_maximum_projection(Val(pf2D.ratemap))
             fields == [pf2D EXCEPT !.position = Some(position),
                                    !.included_thresh_neurons_indx = None,
                                    !.ratemap = Some(new_pf1D_ratemap),
                                    !.ndim = Some(1), !.ybin = None, !.bin_info = None]
             s == setup(fields, position, Val(pf2D.spikes_df), pf2D.epochs)
         IN  IF s.raised # None THEN s ELSE Returned(drop_extra_position_info(s.self))

\* union_of_arrays: the identities of at least one decoder, increasing
union_of_arrays(ratemaps) ==
    SortedFrom(UNION {{ratemaps[k].neuron_ids[i] : i \in 1..Len(ratemaps[k].neuron_ids)} :
                        k \in 1..Len(ratemaps)}, 0, MaxNeurons + 1)

\* lines 1685-1697: one map per identity of the union, zeros for an identity the
\* ratemap does not hold
FullMaps(a_ratemap, maps, ids) ==
    LET n_xbin_centers == Len(a_ratemap.xbin) - 1
    IN  Eager([n \in 1..Len(ids) |->
            IF \E i \in 1..Len(a_ratemap.neuron_ids) : a_ratemap.neuron_ids[i] = ids[n]
            THEN maps[CHOOSE i \in 1..Len(a_ratemap.neuron_ids) : a_ratemap.neuron_ids[i] = ids[n]]
            ELSE ArrayOf(<<n_xbin_centers>>, [ix \in Indices(<<n_xbin_centers>>) |-> Zero])])

\* a mutant of StackLast: the arrays are stacked last to first
StackLastReversed(arrays) ==
    LET shape == <<arrays[1].shape[1], Len(arrays)>>
    IN  ArrayOf(shape, [ix \in Indices(shape) |-> arrays[Len(arrays) + 1 - ix[2]].data[<<ix[1]>>]])

\* np.stack(arrays, axis=-1) of 1-D arrays of one length
StackLast(arrays) ==
    LET shape == <<arrays[1].shape[1], Len(arrays)>>
    IN  ArrayOf(shape, [ix \in Indices(shape) |-> arrays[ix[2]].data[<<ix[1]>>]])

\* np.isclose(a, b, 0.01)
IsClose(a, b) == 100 * Abs(a - b) <= Abs(b)

\* the first ratemap holding the identity gives its extended identity
ExtendedIdOf(ratemaps, aclu) ==
    LET k == CHOOSE k \in 1..Len(ratemaps) :
                /\ \E i \in 1..Len(ratemaps[k].neuron_ids) : ratemaps[k].neuron_ids[i] = aclu
                /\ \A j \in 1..(k - 1) :
                      \A i \in 1..Len(ratemaps[j].neuron_ids) : ratemaps[j].neuron_ids[i] # aclu
        r == ratemaps[k]
    IN  r.neuron_extended_ids[CHOOSE i \in 1..Len(r.neuron_ids) : r.neuron_ids[i] = aclu]

\* the results of one kind stacked along the new last axis, neuron by neuron
Stacked(ratemaps, name, ids) ==
    Eager([n \in 1..Len(ids) |->
        StackLast([k \in 1..Len(ratemaps) |->
                      FullMaps(ratemaps[k], ratemaps[k][name], ids)[n]])])

\* lines 1733-1777: the merged set of decoders that passed the assertions
MergedPf(lhs, ratemaps, ids, ybin) ==
    [PfND_fields(None, None, None,
                 [lhs.config EXCEPT
                     !.is_directional = TRUE,
                     !.grid_bin = <<@[1], F(1)>>,
                     !.smooth = <<@[1], 0>>,
                     !.grid_bin_bounds = <<@[1], <<F(0), F(Len(ratemaps))>> >>])
     EXCEPT !.position_srate = lhs.position_srate, !.xbin = lhs.xbin, !.ybin = ybin,
            !.ndim = Some(Val(lhs.ndim) + 1),
            !.ratemap = Some(Ratemap(
                Stacked(ratemaps, "tuning_curves", ids),
                Stacked(ratemaps, "unsmoothed_tuning_maps", ids),
                Stacked(ratemaps, "spikes_maps", ids), lhs.xbin, ybin, ids,
                StackLast([k \in 1..Len(ratemaps) |-> ratemaps[k].occupancy]),
                [n \in 1..Len(ids) |-> ExtendedIdOf(ratemaps, ids[n])]))]

\* lines 1678-1738 on the recomputed copies of the decoders
MergeRecomputed(directional_1D_decoder_list, ratemaps, ids) ==
    IF \E k \in 1..Len(ratemaps) : Val(directional_1D_decoder_list[k].ndim) > 1 /\ ids # <<>>
    THEN Raised("ValueError", None)        \* a 2-D map assigned to a row at line 1694
    ELSE IF \/ Len(ratemaps) = 0
            \/ \E k \in 2..Len(ratemaps) :
                  \/ directional_1D_decoder_list[1].xbin # directional_1D_decoder_list[k].xbin
                  \/ directional_1D_decoder_list[1].ybin # directional_1D_decoder_list[k].ybin
                  \/ directional_1D_decoder_list[1].ndim # directional_1D_decoder_list[k].ndim
            \/ Val(directional_1D_decoder_list[1].ndim) # 1
            \/ \E k \in 2..Len(ratemaps) :
                  ~IsClose(Val(directional_1D_decoder_list[1].position_srate),
                           Val(directional_1D_decoder_list[k].position_srate))
    THEN Raised("AssertionError", None)
    ELSE Returned(MergedPf(directional_1D_decoder_list[1], ratemaps, ids,
                           Eager([i \in 1..(Len(ratemaps) + 1) |-> F(i - 1)])))

MergeRatemaps(directional_1D_decoder_list, ratemaps) ==
    MergeRecomputed(directional_1D_decoder_list, ratemaps, union_of_arrays(ratemaps))

\* lines 1647-1660: the copies recomputed with no rate threshold, and their ratemaps
MergeDecoders(directional_1D_decoder_list) ==
    MergeRatemaps(directional_1D_decoder_list,
                  Eager([k \in 1..Len(directional_1D_decoder_list) |->
                            Val(directional_1D_decoder_list[k].ratemap)]))

\* input_unidirectional_decoder_dict: the decoders in the order of the dict
build_merged_directional_placefields(decoders) ==
    IF \E k \in 1..Len(decoders) : decoders[k].filtered_spikes_df = None
    THEN Raised("AttributeError", None)
    ELSE MergeDecoders(Eager([k \in 1..Len(decoders) |->
                                 compute([decoders[k] EXCEPT !.config.frate_thresh = Zero])]))

(***************************************************************************)
(* The inputs drawn for the calls of the static routines.                  *)
(***************************************************************************)
\* bin edges 0, 1, ..., n
UnitEdges(n) == Eager([i \in 1..(n + 1) |-> F(i - 1)])

\* the centre of unit bin i
Centre(i) == Frac(2 * i - 1, 2)

\* nondecreasing sequences over 1..n of length at most maxLen
SortedSeqs(n, maxLen) ==
    UNION {{q \in [1..len -> 1..n] : \A i \in 1..(len - 1) : q[i] <= q[i + 1]} :
              len \in 0..maxLen}

\* occupancies of a shape: a bin was never visited (0 s) or visited for 2 s
Occupancies(shape) == {ArrayOf(shape, d) : d \in [Indices(shape) -> {F(0), F(2)}]}

Shape2D == <<NBins - 1, 2>>

\* the 2-D cell number c (row-major) as the spike position at the cell's centre
CellPoint(c) == <<Centre(((c - 1) \div 2) + 1), Centre(((c - 1) % 2) + 1)>>

Smooths1D == {None, <<0>>, <<1>>}

Smooths2D == {None, <<0, 0>>, <<1, 0>>, <<0, 1>>, <<1, 1>>}

TuningCalls1D(fn) ==
    {[fn |-> fn, spikes |-> [p \in 1..Len(q) |-> <<Centre(q[p])>>],
      bins |-> <<UnitEdges(NBins)>>, occupancy |-> occ, smooth |-> sm,
      stage |-> 0, result |-> <<>>] :
        q \in SortedSeqs(NBins, MaxSpikes), occ \in Occupancies(<<NBins>>), sm \in Smooths1D}

TuningCalls2D(fn) ==
    {[fn |-> fn, spikes |-> [p \in 1..Len(q) |-> CellPoint(q[p])],
      bins |-> <<UnitEdges(Shape2D[1]), UnitEdges(Shape2D[2])>>, occupancy |-> occ,
      smooth |-> sm, stage |-> 0, result |-> <<>>] :
        q \in SortedSeqs(Shape2D[1] * Shape2D[2], MaxSpikes - 1),
        occ \in Occupancies(Shape2D), sm \in Smooths2D}

Column(points, k) == Eager([p \in 1..Len(points) |-> points[p][k]])

InitTuning ==
    /\ call \in TuningCalls1D("Pf1D") \cup TuningCalls2D("Pf2D")
                  \cup TuningCalls1D("PlacefieldND") \cup TuningCalls2D("PlacefieldND")
    /\ session = None /\ pfs = None /\ ret = None

Call_Pf1D_compute_tuning_map ==
    /\ call.fn = "Pf1D" /\ call.stage = 0
    /\ call' = [call EXCEPT !.stage = 1,
                    !.result = Pf1D_compute_tuning_map(Column(call.spikes, 1), call.bins[1],
                                                       call.occupancy, call.smooth)]
    /\ UNCHANGED <<session, pfs, ret>>

Call_Pf2D_compute_tuning_map ==
    /\ call.fn = "Pf2D" /\ call.stage = 0
    /\ call' = [call EXCEPT !.stage = 1,
                    !.result = Pf2D_compute_tuning_map(Column(call.spikes, 1), Column(call.spikes, 2),
                                                       call.bins[1], call.bins[2],
                                                       call.occupancy, call.smooth)]
    /\ UNCHANGED <<session, pfs, ret>>

Call_PlacefieldND_compute_tuning_map ==
    /\ call.fn = "PlacefieldND" /\ call.stage = 0
    /\ call' = [call EXCEPT !.stage = 1,
                    !.result = PlacefieldND_compute_tuning_map(call.spikes, call.bins,
                                                               call.occupancy, call.smooth)]
    /\ UNCHANGED <<session, pfs, ret>>

NextTuning ==
    \/ Call_Pf1D_compute_tuning_map
    \/ Call_Pf2D_compute_tuning_map
    \/ Call_PlacefieldND_compute_tuning_map

SpecTuning == InitTuning /\ [][NextTuning]_vars

\* tuning maps of two bins handed to the peak filter
PeakMaps == {ArrayOf(<<2>>, d) : d \in [Indices(<<2>>) -> {F(0), Frac(1, 2), F(1), F(2)}]}

InitPeak ==
    call \in {[fn |-> "_build_peak_frate_filter", tuning_maps |-> tms, frate_thresh |-> th,
               stage |-> 0, result |-> <<>>] :
                 tms \in UNION {[1..n -> PeakMaps] : n \in 0..MaxNeurons},
                 th \in {F(0), F(1), F(2)}}
    /\ session = None /\ pfs = None /\ ret = None

Call_build_peak_frate_filter ==
    /\ call.fn = "_build_peak_frate_filter" /\ call.stage = 0
    /\ call' = [call EXCEPT !.stage = 1,
                    !.result = build_peak_frate_filter(call.tuning_maps, call.frate_thresh)]
    /\ UNCHANGED <<session, pfs, ret>>

NextPeak == Call_build_peak_frate_filter

SpecPeak == InitPeak /\ [][NextPeak]_vars

\* speeds below, at and above the threshold drawn
SpeedValues == {2, 5, 10}

SpeedThreshs == {None, <<5>>}

\* one sample per tick 1..NSamples
PositionStreams ==
    {[i \in 1..NSamples |-> [t |-> i, speed |-> sp[i]]] : sp \in [1..NSamples -> SpeedValues]}

\* one or two epochs [start, stop), sorted and not overlapping
EpochRows == {[start |-> a, stop |-> b] : a \in 0..NSamples, b \in 1..(NSamples + 1)}

EpochsDfs ==
    {e \in UNION {[1..n -> EpochRows] : n \in 1..2} :
        /\ \A i \in 1..Len(e) : e[i].start < e[i].stop
        /\ \A i \in 1..(Len(e) - 1) : e[i].stop <= e[i + 1].start}

InitSpeed ==
    call \in {[fn |-> "filtered_by_speed", epochs_df |-> e, position_df |-> pos,
               speed_thresh |-> th, stage |-> 0,
               rows |-> <<>>, result |-> <<>>, rows2 |-> <<>>, result2 |-> <<>>] :
                 e \in EpochsDfs, pos \in PositionStreams, th \in SpeedThreshs}
    /\ session = None /\ pfs = None /\ ret = None

Call_filtered_by_speed ==
    /\ call.fn = "filtered_by_speed" /\ call.stage = 0
    /\ call' = [call EXCEPT !.stage = 1,
                    !.rows = SpeedFilteredRows(call.epochs_df, call.position_df, call.speed_thresh),
                    !.result = filtered_by_speed(call.epochs_df, call.position_df, call.speed_thresh)]
    /\ UNCHANGED <<session, pfs, ret>>

\* the filter applied again, to the epochs it returned and the same samples
Call_filtered_by_speed_on_output ==
    /\ call.fn = "filtered_by_speed" /\ call.stage = 1
    /\ call' = [call EXCEPT !.stage = 2,
                    !.rows2 = SpeedFilteredRows(call.result, call.position_df, call.speed_thresh),
                    !.result2 = filtered_by_speed(call.result, call.position_df, call.speed_thresh)]
    /\ UNCHANGED <<session, pfs, ret>>

NextSpeed ==
    \/ Call_filtered_by_speed
    \/ Call_filtered_by_speed_on_output

SpecSpeed == InitSpeed /\ [][NextSpeed]_vars

(***************************************************************************)
(* The placefield sets built from one recorded session.  The session has   *)
(* one position sample per tick 1..NSamples+1, the animal moving along x   *)
(* and alternating in y, and the spikes of two neurons.  Slots a and b     *)
(* hold the sets the caller constructs, slot r the set the last deriving   *)
(* operation returned.                                                     *)
(***************************************************************************)
SessionTicks == NSamples + 1

\* the speed is above the threshold at the tick fast_at and below it elsewhere
SessionPosition(fast_at) ==
    [ndim |-> 2, sampling_rate |-> 1,
     df |-> [i \in 1..SessionTicks |->
                [t |-> i, x |-> F(i - 1), y |-> F(2 * (i % 2)),
                 speed |-> IF i = fast_at THEN 10 ELSE 2]]]

\* neuron `twice` fires twice at its tick, the other neuron once
SessionSpikes(twice) ==
    IF twice = 1
    THEN <<[t |-> 2, aclu |-> 1], [t |-> 2, aclu |-> 1], [t |-> 3, aclu |-> 1],
           [t |-> 4, aclu |-> 2]>>
    ELSE <<[t |-> 2, aclu |-> 1], [t |-> 4, aclu |-> 2], [t |-> 4, aclu |-> 2]>>

\* the sessions and the configuration values the sets of a session are built
\* with: no speed threshold or one the second sample exceeds; either the first
\* neuron firing twice, no smoothing, a rate threshold of 1 and the bounds of
\* the grid left to the positions, or the second neuron firing twice, smoothing,
\* a rate threshold of 1/2 and the bounds of the grid given
SessionBounds(twice) ==
    IF twice = 1 THEN <<None, None>> ELSE << <<F(0), F(NSamples)>>, <<F(0), F(2)>> >>

Sessions ==
    {[position |-> SessionPosition(2), spikes_df |-> SessionSpikes(twice),
      speed_thresh |-> speed_thresh, smooth |-> <<twice - 1, twice - 1>>,
      frate_thresh |-> Frac(1, twice), grid_bin_bounds |-> SessionBounds(twice)] :
        speed_thresh \in {None, Some(5)}, twice \in 1..2}

\* the epochs a set is constructed over: the whole session in two epochs, its
\* first half, or none
EpochChoices ==
    {Some(<<[start |-> 1, stop |-> 3], [start |-> 3, stop |-> SessionTicks + 1]>>),
     Some(<<[start |-> 1, stop |-> 4]>>),
     None}

Slots == {"a", "b", "r"}

Outcome(op, slot, target, force, ids, raised, did_update_bins) ==
    [op |-> op, slot |-> slot, target |-> target, force_recompute |-> force, ids |-> ids,
     raised |-> raised, did_update_bins |-> did_update_bins]

NoCall == [fn |-> "none", stage |-> 0]

Init ==
    /\ call = NoCall
    /\ session \in Sessions
    /\ pfs = [s \in Slots |-> None]
    /\ ret = Outcome("init", "a", "a", FALSE, {}, None, FALSE)

\* the outcome of a call that leaves the set it returns in the slot `into`
Returning(op, slot, target, into, force, ids, r, did_update_bins) ==
    /\ pfs' = IF r.raised = None THEN [pfs EXCEPT ![into] = Some(r.self)] ELSE pfs
    /\ ret' = Outcome(op, slot, target, force, ids, r.raised, did_update_bins)
    /\ UNCHANGED <<call, session>>

\* the position trace handed to the constructor of a set of ndim dimensions
PositionOf(ndim) ==
    IF ndim = 1 THEN drop_dimensions_above_1(session.position) ELSE session.position

\* PfND(...) with a configuration of the session, held in an empty slot; the
\* set of slot b is built after that of slot a, with its dimensionality, in bins
\* of size 1
Construct(slot) ==
    \E ndim \in 1..2, g \in 1..2, epochs \in EpochChoices :
        /\ pfs[slot] = None
        /\ slot = "b" => (pfs["a"] # None /\ Val(Val(pfs["a"]).ndim) = ndim /\ g = 1)
        /\ Returning("PfND", slot, slot, slot, FALSE, {},
                     PfND(session.spikes_df, PositionOf(ndim), epochs,
                          PlacefieldComputationParameters(session.speed_thresh,
                              <<F(g), F(g)>>, session.grid_bin_bounds, session.smooth,
                              session.frate_thresh)),
                     FALSE)

Compute(slot) ==
    /\ pfs[slot] # None
    /\ Returning("compute", slot, slot, slot, FALSE, {},
                 Returned(compute(Val(pfs[slot]))), FALSE)

\* conform_to_position_bins leaves what it did to the set in place even when it
\* raises
Conformed(slot, target, force_recompute, r) ==
    /\ pfs' = [pfs EXCEPT ![slot] = Some(r.self)]
    /\ ret' = Outcome("conform_to_position_bins", slot, target, force_recompute, {},
                      r.raised, r.did_update_bins)
    /\ UNCHANGED <<call, session>>

\* a derived set is conformed to the set of slot a
ConformToPositionBins(slot, target) ==
    \E force_recompute \in BOOLEAN :
        /\ slot # target /\ pfs[slot] # None /\ pfs[target] # None
        /\ slot = "r" => target = "a"
        /\ Conformed(slot, target, force_recompute,
                     conform_to_position_bins(Val(pfs[slot]), Val(pfs[target]),
                                              force_recompute))

\* the identities asked for include neuron 1
GetById(slot) ==
    \E ids \in {S \in SUBSET (1..MaxNeurons) : 1 \in S} :
        /\ pfs[slot] # None
        /\ Returning("get_by_id", slot, "r", "r", FALSE, ids,
                     get_by_id(Val(pfs[slot]), ids), FALSE)

To1DMaximumProjection(slot) ==
    /\ pfs[slot] # None
    /\ Returning("to_1D_maximum_projection", slot, "r", "r", FALSE, {},
                 build_1D_maximum_projection(Val(pfs[slot])), FALSE)

\* build_merged_directional_placefields({'a': a, 'b': b})
BuildMergedDirectionalPlacefields ==
    /\ pfs["a"] # None /\ pfs["b"] # None
    /\ Returning("build_merged_directional_placefields", "a", "b", "r", FALSE, {},
                 build_merged_directional_placefields(<<Val(pfs["a"]), Val(pfs["b"])>>),
                 FALSE)

Next ==
    \/ \E slot \in {"a", "b"} : Construct(slot)
    \/ \E slot \in {"a", "b"} : Compute(slot)
    \/ \E slot \in Slots, target \in {"a", "b"} : ConformToPositionBins(slot, target)
    \/ \E slot \in {"a", "r"} : GetById(slot)
    \/ \E slot \in {"a", "r"} : To1DMaximumProjection(slot)
    \/ BuildMergedDirectionalPlacefields

Spec == Init /\ [][Next]_vars

(***************************************************************************)
(* Properties of the tuning-map routines (SpecTuning).                     *)
(***************************************************************************)
TuningReturned == call.fn \in {"Pf1D", "Pf2D", "PlacefieldND"} /\ call.stage = 1

ZeroOccupancyBins == {ix \in Indices(call.occupancy.shape) : call.occupancy.data[ix] = Zero}

\* whether the call's sigma makes the routine smooth its final map
FinalMapSmoothed ==
    /\ call.smooth # None
    /\ CASE call.fn = "Pf1D" -> call.smooth[1] > 0
          [] call.fn = "Pf2D" -> call.smooth[1] > 0 /\ call.smooth[2] > 0
          [] OTHER -> \E k \in 1..Len(call.smooth) : call.smooth[k] > 0

\* C1 as stated: at every bin of zero occupancy, the tuning map and the
\* never-smoothed tuning map are both exactly 0.0, for every sigma.
C1_ZeroOccupancyClosure ==
    TuningReturned =>
        \A ix \in ZeroOccupancyBins :
            /\ call.result.tuning.data[ix] = Zero
            /\ call.result.never_smoothed.data[ix] = Zero

\* C1 amended: no entry of either map is NaN; at every bin of zero occupancy
\* the never-smoothed map is exactly 0.0, and so is the tuning map whenever the
\* routine does not smooth its final map.
C1_ZeroOccupancyClosureBeforeSmoothing ==
    TuningReturned =>
        /\ \A ix \in Indices(call.occupancy.shape) :
              /\ ~IsNaN(call.result.tuning.data[ix])
              /\ ~IsNaN(call.result.never_smoothed.data[ix])
        /\ \A ix \in ZeroOccupancyBins :
              /\ call.result.never_smoothed.data[ix] = Zero
              /\ ~FinalMapSmoothed => call.result.tuning.data[ix] = Zero

\* a returned call with spikes in a bin of zero occupancy and an unsmoothed final map
C1_Witness ==
    /\ TuningReturned
    /\ ~FinalMapSmoothed
    /\ \E ix \in ZeroOccupancyBins : FGt(call.result.unsmoothed_spikes_map.data[ix], Zero)

(***************************************************************************)
(* Properties of the peak-rate filter (SpecPeak).                          *)
(***************************************************************************)
PeakReturned == call.fn = "_build_peak_frate_filter" /\ call.stage = 1

\* C2: index i is returned iff some value of tuning_maps[i] is strictly above
\* the threshold (so a peak equal to the threshold is excluded), and the
\* returned indices are strictly increasing.
C2_PeakInclusionStrict ==
    PeakReturned =>
        /\ \A i \in 1..Len(call.tuning_maps) :
              (\E j \in 1..Len(call.result) : call.result[j] = i)
                <=> (\E ix \in Indices(call.tuning_maps[i].shape) :
                        FGt(call.tuning_maps[i].data[ix], call.frate_thresh))
        /\ \A j \in 1..Len(call.result) : call.result[j] \in 1..Len(call.tuning_maps)
        /\ \A j \in 1..(Len(call.result) - 1) : call.result[j] < call.result[j + 1]

\* two neurons, the first with a peak of exactly the threshold 1.0 and excluded,
\* the second above it and returned
C2_Witness ==
    /\ PeakReturned
    /\ call.frate_thresh = F(1)
    /\ Len(call.tuning_maps) = 2
    /\ NanMax(call.tuning_maps[1]) = F(1)
    /\ call.result = <<2>>

(***************************************************************************)
(* Properties of filtered_by_speed (SpecSpeed).                            *)
(***************************************************************************)
SpeedReturned == call.fn = "filtered_by_speed" /\ call.stage >= 1

\* the times of the samples of input epoch i (1-based row) that survive
Surviving(i) ==
    {call.position_df[r].t : r \in {q \in 1..Len(call.position_df) :
        /\ call.epochs_df[i].start <= call.position_df[q].t
        /\ call.position_df[q].t < call.epochs_df[i].stop
        /\ (call.speed_thresh # None => call.position_df[q].speed < call.speed_thresh[1])}}

SamplesOf(i) ==
    {q \in 1..Len(call.position_df) :
        /\ call.epochs_df[i].start <= call.position_df[q].t
        /\ call.position_df[q].t < call.epochs_df[i].stop}

RowTimes(rows) == {rows[r].t : r \in 1..Len(rows)}

OutputsOf(i) == {j \in 1..Len(call.result) : call.result[j].label = i - 1}

\* a spike at every tick of the recording, sliced by the output spans
SlicedTickSpikes ==
    RowTimes(time_sliced([k \in 1..(NSamples + 2) |-> [t |-> k - 1, aclu |-> 1]], call.result))

C6_EpochRederivation ==
    SpeedReturned =>
        /\ \A j \in 1..Len(call.result) : call.result[j].label + 1 \in 1..Len(call.epochs_df)
        /\ \A i \in 1..Len(call.epochs_df) :
              IF Surviving(i) = {} THEN OutputsOf(i) = {}
              ELSE /\ Cardinality(OutputsOf(i)) = 1
                   /\ \A j \in OutputsOf(i) :
                         /\ \A t \in Surviving(i) : call.result[j].start <= t /\ t <= call.result[j].stop
                         /\ call.result[j].start \in Surviving(i)
                         /\ call.result[j].stop \in Surviving(i)
                         /\ call.result[j].n_samples = Cardinality(Surviving(i))
                         /\ call.epochs_df[i].start <= call.result[j].start
                         /\ call.result[j].start <= call.result[j].stop
                         /\ call.result[j].stop <= call.epochs_df[i].stop

\* two input epochs: one shrinks to the span of its survivors (a fast sample at
\* its start), the other has no survivor
C6_Witness ==
    /\ SpeedReturned
    /\ Len(call.epochs_df) = 2
    /\ \E i, k \in 1..2 :
          /\ Surviving(k) = {} /\ SamplesOf(k) # {}
          /\ Cardinality(Surviving(i)) >= 2
          /\ Cardinality(SamplesOf(i)) > Cardinality(Surviving(i))
          /\ \E j \in OutputsOf(i) : call.result[j].start > call.epochs_df[i].start + 1

Spans(epochs) == {<<epochs[j].start, epochs[j].stop, epochs[j].n_samples>> : j \in 1..Len(epochs)}

\* C7 as stated: the filter applied to its own output (epochs read as [start,
\* stop)) retains the same samples and returns the same epochs.
C7_SpeedFilterIdempotent ==
    (call.fn = "filtered_by_speed" /\ call.stage = 2) =>
        /\ RowTimes(call.rows2) = RowTimes(call.rows)
        /\ Spans(call.result2) = Spans(call.result)

(***************************************************************************)
(* Properties of the placefield sets of a session (Spec).                  *)
(***************************************************************************)
Held == {s \in Slots : pfs[s] # None}

\* the sets the caller constructed: compute and conform_to_position_bins leave
\* their streams as setup built them
Constructed == Held \cap {"a", "b"}

InSpans(t, spans) == \E j \in 1..Len(spans) : spans[j].start <= t /\ t <= spans[j].stop

\* the rows of a stream as (time, neuron) or (time, x) pairs
SpikeRows(df) == [r \in 1..Len(df) |-> <<df[r].t, df[r].aclu>>]

SampleRows(df) == [r \in 1..Len(df) |-> <<df[r].t, df[r].x>>]

\* C4: once setup has run with a speed threshold T, no position sample whose
\* speed is at or above T remains in the filtered position stream, the samples
\* between the first and the last below-threshold sample of an epoch included
C4_NoFastSampleAfterSetup ==
    \A s \in Constructed :
        LET pf == Val(pfs[s])
            df == Val(pf.filtered_pos_df)
        IN  pf.config.speed_thresh # None =>
                \A r \in 1..Len(df) : df[r].speed < Val(pf.config.speed_thresh)

\* the spans setup slices both raw streams by: the speed-filtered epochs
SpeedFilteredSpans(pf) ==
    filtered_by_speed(Val(pf.epochs),
                      dropna(time_sliced(Val(pf.position).df, Val(pf.epochs)), Val(pf.ndim)),
                      pf.config.speed_thresh)

SymmetricOver(pf, spans) ==
    LET raw_pos == Val(pf.position).df
        raw_spk == Val(pf.spikes_df)
    IN  /\ SampleRows(Val(pf.filtered_pos_df))
             = SampleRows(SelectRows(raw_pos,
                   [r \in 1..Len(raw_pos) |-> InSpans(raw_pos[r].t, spans)], 1))
        /\ SpikeRows(Val(pf.filtered_spikes_df))
             = SpikeRows(SelectRows(raw_spk,
                   [r \in 1..Len(raw_spk) |-> InSpans(raw_spk[r].t, spans)], 1))
        \* a spike is kept exactly when the position sample of its tick is kept
        /\ \A r \in 1..Len(raw_spk) :
               (\E k \in 1..Len(Val(pf.filtered_spikes_df)) :
                    Val(pf.filtered_spikes_df)[k].t = raw_spk[r].t)
               <=> (\E k \in 1..Len(Val(pf.filtered_pos_df)) :
                        Val(pf.filtered_pos_df)[k].t = raw_spk[r].t)

\* C5: after setup the filtered position stream and the filtered spike stream
\* are the restrictions of the raw position and raw spike streams to one and
\* the same set of time spans, the speed-filtered epochs; no time contributes
\* position samples while its spikes are excluded, nor the reverse
C5_PositionSpikeSymmetry ==
    \A s \in Constructed : SymmetricOver(Val(pfs[s]), SpeedFilteredSpans(Val(pfs[s])))

\* a constructed set with a speed threshold whose filtering removed a raw spike
\* and a raw position sample that lie inside its epochs
C5_Witness ==
    \E s \in Constructed :
        LET pf == Val(pfs[s])
            raw_spk == Val(pf.spikes_df)
            raw_pos == Val(pf.position).df
        IN  /\ pf.config.speed_thresh # None
            /\ Len(Val(pf.filtered_spikes_df)) > 0
            /\ \E r \in 1..Len(raw_spk) :
                   /\ InSpans(raw_spk[r].t, Val(pf.epochs))
                   /\ \A k \in 1..Len(Val(pf.filtered_spikes_df)) :
                          Val(pf.filtered_spikes_df)[k].t # raw_spk[r].t
            /\ \E r \in 1..Len(raw_pos) :
                   /\ InSpans(raw_pos[r].t, Val(pf.epochs))
                   /\ \A k \in 1..Len(Val(pf.filtered_pos_df)) :
                          Val(pf.filtered_pos_df)[k].t # raw_pos[r].t

\* the shape the bin edges of a set imply
ShapeOfBins(pf) ==
    IF pf.ybin = None THEN <<Len(pf.xbin) - 1>> ELSE <<Len(pf.xbin) - 1, Len(pf.ybin) - 1>>

MapsShaped(rm, shape) ==
    /\ rm.occupancy.shape = shape
    /\ \A i \in 1..Len(rm.tuning_curves) : rm.tuning_curves[i].shape = shape
    /\ \A i \in 1..Len(rm.unsmoothed_tuning_maps) : rm.unsmoothed_tuning_maps[i].shape = shape
    /\ \A i \in 1..Len(rm.spikes_maps) : rm.spikes_maps[i].shape = shape

\* C8: after any sequence of construction, compute, conform_to_position_bins,
\* get_by_id, to_1D_maximum_projection and build_merged_directional_placefields
\* the occupancy map and every neuron's spike, tuning and unsmoothed tuning map
\* have one shape, the bin counts of the set's own current bin edges
C8_ShapeInvariance ==
    \A s \in Held :
        Val(pfs[s]).ratemap # None =>
            MapsShaped(Val(Val(pfs[s]).ratemap), ShapeOfBins(Val(pfs[s])))

\* the sets compute has just run on: the constructed ones and what get_by_id returned
Computed ==
    Constructed \cup (IF ret.op = "get_by_id" /\ ret.raised = None THEN {"r"} ELSE {})

Increasing(seq) == \A i, j \in 1..Len(seq) : i < j => seq[i] < seq[j]

\* the number of the positions of a spike train that fall in the bin ix
SpikesInBin(pf, spk_pos, ix) ==
    Cardinality({k \in 1..Len(spk_pos[1]) :
        /\ BinIndex(spk_pos[1][k], pf.xbin) = ix[1]
        /\ Len(ix) > 1 => BinIndex(spk_pos[2][k], pf.ybin) = ix[2]})

\* entry i of every per-neuron result of the set belongs to the neuron aclu
EntryOf(pf, rm, i, aclu) ==
    LET spikes == get_group(Val(pf.filtered_spikes_df), aclu)
        pos == Val(pf.filtered_pos_df)
        spk_pos == Val(pf.ratemap_spiketrains_pos)[i]
    IN  /\ rm.neuron_ids[i] = aclu
        /\ rm.neuron_extended_ids[i] = ProbeTupleId(aclu)
        /\ Val(pf.ratemap_spiketrains)[i] = Col(spikes, "t")
        /\ Len(spk_pos[1]) = Len(spikes)
        /\ \A k \in 1..Len(spikes) : \E r \in 1..Len(pos) :
               pos[r].t = spikes[k].t /\ pos[r].x = spk_pos[1][k]
        /\ \A ix \in Indices(rm.occupancy.shape) :
               /\ rm.spikes_maps[i].data[ix] = F(SpikesInBin(pf, spk_pos, ix))
               /\ FGt(rm.unsmoothed_tuning_maps[i].data[ix], Zero)
                    <=> (SpikesInBin(pf, spk_pos, ix) > 0 /\ FGt(rm.occupancy.data[ix], Zero))
        /\ FGt(NanMax(rm.tuning_curves[i]), Zero)
             <=> FGt(NanMax(rm.unsmoothed_tuning_maps[i]), Zero)
        /\ FGt(NanMax(rm.tuning_curves[i]), pf.config.frate_thresh)

AlignedAfterCompute(pf, rm, pre, included) ==
    /\ Increasing(included) /\ \A k \in 1..Len(included) : included[k] \in 1..Len(pre)
    /\ Len(rm.neuron_ids) = Len(included) /\ Len(rm.neuron_extended_ids) = Len(included)
    /\ Len(rm.tuning_curves) = Len(included) /\ Len(rm.unsmoothed_tuning_maps) = Len(included)
    /\ Len(rm.spikes_maps) = Len(included)
    /\ Len(Val(pf.ratemap_spiketrains)) = Len(included)
    /\ Len(Val(pf.ratemap_spiketrains_pos)) = Len(included)
    /\ \A k \in 1..Len(included) : EntryOf(pf, rm, k, pre[included[k]])

\* C9: after compute, entry i of neuron_ids, neuron_extended_ids, the tuning,
\* unsmoothed tuning and spike maps, ratemap_spiketrains and
\* ratemap_spiketrains_pos all belong to one neuron; the included neurons keep
\* the relative order of the neurons of the filtered spike stream and are
\* among them
C9_IndexAlignment ==
    \A s \in Computed :
        AlignedAfterCompute(Val(pfs[s]), Val(Val(pfs[s]).ratemap),
                            neuron_ids(Val(Val(pfs[s]).filtered_spikes_df)),
                            Val(Val(pfs[s]).included_thresh_neurons_indx))

\* a computed set whose peak filter left out the first neuron of its filtered
\* spike stream and included a later one
C9_Witness ==
    \E s \in Computed :
        /\ Len(Val(Val(pfs[s]).included_thresh_neurons_indx)) >= 1
        /\ Val(Val(pfs[s]).included_thresh_neurons_indx)[1] > 1
        /\ Val(Val(pfs[s]).ratemap).neuron_ids
             # neuron_ids(Val(Val(pfs[s]).filtered_spikes_df))

ConformReturned(slot, target) ==
    /\ ret'.op = "conform_to_position_bins" /\ ret'.raised = None
    /\ ret'.slot = slot /\ ret'.target = target

TargetFiner(self, target_pf) ==
    \/ Len(self.xbin) < Len(target_pf.xbin)
    \/ (Val(self.ndim) > 1 /\ Len(self.ybin) < Len(target_pf.ybin))

\* the set took the bins of the target, re-derived its bin columns and recomputed
TookBinsOf(after, target_pf) ==
    /\ after.xbin = target_pf.xbin /\ after.ybin = target_pf.ybin
    /\ after.bin_info = target_pf.bin_info
    /\ after.config.grid_bin = target_pf.config.grid_bin
    /\ \A r \in 1..Len(Val(after.filtered_pos_df)) :
           Val(after.filtered_pos_df)[r].binned_x
               = BinIndex(Val(after.filtered_pos_df)[r].x, target_pf.xbin)
    /\ Val(after.ratemap).xbin = target_pf.xbin
    /\ MapsShaped(Val(after.ratemap), ShapeOfBins(target_pf))

ConformStep(self, target_pf, after) ==
    /\ ret'.did_update_bins <=> (ret'.force_recompute \/ TargetFiner(self, target_pf))
    /\ ret'.did_update_bins => TookBinsOf(after, target_pf)
    /\ ~ret'.did_update_bins => pfs' = pfs

\* C10 (amended): conform_to_position_bins(target) replaces the bins, the bin
\* metadata and the bin size of the set with the target's, re-derives the bin
\* columns and recomputes exactly when force_recompute is set or the target has
\* more bin edges than the set in x (or, in 2-D, in y); otherwise, the case of
\* equal bins included, it changes no state and reports did_update_bins = False
C10_ConformWhenTargetFiner ==
    [][\A slot, target \in {"a", "b"} :
          ConformReturned(slot, target) =>
              ConformStep(Val(pfs[slot]), Val(pfs[target]), Val(pfs'[slot]))]_vars

\* conform_to_position_bins without force_recompute replaced the bins of the set
C10_Witness ==
    /\ ret.op = "conform_to_position_bins" /\ ret.raised = None
    /\ ret.did_update_bins /\ ~ret.force_recompute
    /\ Val(pfs[ret.slot]).xbin = Val(pfs[ret.target]).xbin

TargetCoarserOrEqual(self, target_pf) ==
    \/ Len(target_pf.xbin) <= Len(self.xbin)
    \/ (Val(self.ndim) > 1 /\ Len(target_pf.ybin) <= Len(self.ybin))

\* C10: conform_to_position_bins replaces the bins and recomputes only when the
\* target's bins are coarser-or-equal in count, and is a no-op reporting
\* did_update_bins = False when the bin edges already equal the target's
C10_ConformOnlyWhenTargetCoarserOrEqual ==
    [][\A slot, target \in {"a", "b"} :
          (ConformReturned(slot, target) /\ ~ret'.force_recompute) =>
              /\ ret'.did_update_bins =>
                     TargetCoarserOrEqual(Val(pfs[slot]), Val(pfs[target]))
              /\ (Val(pfs[slot]).xbin = Val(pfs[target]).xbin
                  /\ Val(pfs[slot]).ybin = Val(pfs[target]).ybin)
                     => (~ret'.did_update_bins /\ pfs' = pfs)]_vars

\* a call of conform_to_position_bins or get_by_id on the set of the slot raised
RecomputationRaised(slot) ==
    /\ ret'.op \in {"conform_to_position_bins", "get_by_id"}
    /\ ret'.slot = slot /\ ret'.raised # None

\* C11: conform_to_position_bins (and get_by_id) either completes, or, when a
\* step of it fails, leaves the bin edges, the bin metadata, the config and the
\* maps of the set exactly as they were
C11_RecomputationAtomic ==
    [][\A slot \in Slots : RecomputationRaised(slot) => pfs'[slot] = pfs[slot]]_vars

\* a call on the set of the slot, made while the set exposed maps, changed its
\* config, its bin edges or its epochs
ComputedSetChanged(slot) ==
    /\ ret'.op \in {"conform_to_position_bins", "compute"} /\ ret'.slot = slot
    /\ pfs[slot] # None /\ Val(pfs[slot]).ratemap # None
    /\ \/ Val(pfs'[slot]).config # Val(pfs[slot]).config
       \/ Val(pfs'[slot]).xbin # Val(pfs[slot]).xbin
       \/ Val(pfs'[slot]).ybin # Val(pfs[slot]).ybin
       \/ Val(pfs'[slot]).epochs # Val(pfs[slot]).epochs

\* the maps the set exposes are those compute derives from what the set holds now
MapsAreCurrent(pf) ==
    /\ pf.filtered_pos_df # None /\ pf.filtered_spikes_df # None
    /\ pf = compute(pf)

\* C12: whenever the config, the bin edges or the epochs of a computed set are
\* changed, the maps derived before the change are not exposed as the set's
\* result until compute has run again
C12_StateInvalidation ==
    [][\A slot \in Slots :
          ComputedSetChanged(slot) =>
              (Val(pfs'[slot]).ratemap = None \/ MapsAreCurrent(Val(pfs'[slot])))]_vars

\* get_by_id(ids) was called on the computed set of the slot
GetByIdCalled(slot) ==
    /\ ret'.op = "get_by_id" /\ ret'.slot = slot
    /\ pfs[slot] # None /\ Val(pfs[slot]).ratemap # None

\* the set returned is recomputed and includes no neuron outside ids
RestrictedTo(pf, ids) ==
    /\ MapsAreCurrent(pf)
    /\ \A i \in 1..Len(Val(pf.ratemap).neuron_ids) : Val(pf.ratemap).neuron_ids[i] \in ids

\* C13: get_by_id(ids), called on any computed set this module produces (by
\* construction, conform_to_position_bins, projection or
\* build_merged_directional_placefields), returns a new, fully recomputed set
\* whose included neuron identities are among ids, and leaves the set it was
\* called on unchanged
C13_GetByIdOnAnyComputedSet ==
    [][\A slot \in Slots :
          GetByIdCalled(slot) =>
              /\ ret'.raised = None
              /\ pfs'["r"] # None /\ RestrictedTo(Val(pfs'["r"]), ret'.ids)
              /\ slot # "r" => pfs'[slot] = pfs[slot]]_vars

\* to_1D_maximum_projection was called on the 2-D computed set of the slot
ProjectionCalled(slot) ==
    /\ ret'.op = "to_1D_maximum_projection" /\ ret'.slot = slot
    /\ pfs[slot] # None /\ Val(pfs[slot]).ratemap # None /\ Val(Val(pfs[slot]).ndim) = 2

\* every entry of the 1-D map is the maximum over y of the 2-D map
MaxOverY(map1D, map2D) ==
    /\ map1D.shape = <<map2D.shape[1]>>
    /\ \A x \in 1..map2D.shape[1] :
           /\ \E y \in 1..map2D.shape[2] : map1D.data[<<x>>] = map2D.data[<<x, y>>]
           /\ \A y \in 1..map2D.shape[2] : FLe(map2D.data[<<x, y>>], map1D.data[<<x>>])

ProjectionOf(pf1D, pf2D) ==
    /\ Val(pf1D.ndim) = 1 /\ pf1D.ratemap # None
    /\ Val(pf1D.ratemap).neuron_ids = Val(pf2D.ratemap).neuron_ids
    /\ Len(Val(pf1D.ratemap).tuning_curves) = Len(Val(pf2D.ratemap).tuning_curves)
    /\ \A i \in 1..Len(Val(pf2D.ratemap).tuning_curves) :
           MaxOverY(Val(pf1D.ratemap).tuning_curves[i], Val(pf2D.ratemap).tuning_curves[i])

\* C14: to_1D_maximum_projection on a 2-D set with bins (X, Y) yields a 1-D set
\* in which, for every included neuron and every x bin, the tuning map value is
\* the maximum over y of the neuron's 2-D tuning map; the neurons and their
\* order are those of the 2-D set, and the 2-D set is left unchanged
C14_MaximumProjection ==
    [][\A slot \in Slots :
          ProjectionCalled(slot) =>
              /\ ret'.raised = None
              /\ pfs'["r"] # None /\ ProjectionOf(Val(pfs'["r"]), Val(pfs[slot]))
              /\ slot # "r" => pfs'[slot] = pfs[slot]]_vars

(***************************************************************************)
(* The occupancy array across a call of _compute_tuning_map (SpecTuning).  *)
(***************************************************************************)
\* C15: when a call of _compute_tuning_map (1-D, 2-D, N-D) returns, the
\* occupancy array the caller passed holds exactly what it held when the call
\* began; the NaN written over its zero bins is not left in it
C15_OccupancyRestored ==
    TuningReturned =>
        /\ call.result.occupancy = call.occupancy
        /\ \A ix \in Indices(call.occupancy.shape) : ~IsNaN(call.result.occupancy.data[ix])

\* a returned call whose occupancy array has bins of zero occupancy, which the
\* routine overwrote with NaN, and visited bins
C15_Witness ==
    /\ TuningReturned
    /\ ZeroOccupancyBins # {}
    /\ ZeroOccupancyBins # Indices(call.occupancy.shape)

(***************************************************************************)
(* The per-neuron loop of compute with the statements of two neurons'      *)
(* Pf1D._compute_tuning_map calls interleaved (SpecLoop).  Both calls are  *)
(* handed the one occupancy array of compute; a call is at the statement   *)
(* its pc names.  No sigma is given, so no map is smoothed.                *)
(***************************************************************************)
\* the largest finite float, which np.nan_to_num puts in place of +inf
MaxFloat == <<1, -1>>

\* np.nan_to_num(m / occupancy, nan=0.0) with the occupancy as it is found:
\* x/NaN and 0/0 are NaN and become 0.0, x/0 is +inf and becomes the largest float
DividedByFound(m, occupancy) ==
    ArrayOf(m.shape, [ix \in Indices(m.shape) |->
        IF IsNaN(occupancy.data[ix]) THEN Zero
        ELSE IF occupancy.data[ix] = Zero
             THEN (IF m.data[ix] = Zero THEN Zero ELSE MaxFloat)
             ELSE FDiv(m.data[ix], occupancy.data[ix])])

LoopCell(spk_x) ==
    [pc |-> 504, spk_x |-> spk_x, spikes_map |-> None, unsmoothed_spikes_map |-> None,
     never_smoothed |-> None, unsmoothed |-> None]

\* one spike of the second neuron, in any bin
OneSpike == {<<Centre(i)>> : i \in 1..NBins}

InitLoop ==
    /\ \E occupancy \in Occupancies(<<NBins>>), q \in SortedSeqs(NBins, MaxSpikes), s2 \in OneSpike :
           call = [fn |-> "compute", stage |-> 0, xbin |-> UnitEdges(NBins),
                   held |-> occupancy, occupancy |-> occupancy,
                   cells |-> <<LoopCell([p \in 1..Len(q) |-> Centre(q[p])]), LoopCell(s2)>>]
    /\ session = None /\ pfs = None /\ ret = None

At(n, line) == call.fn = "compute" /\ call.cells[n].pc = line

\* line 504: the spikes maps of the neuron
Line504(n) ==
    /\ At(n, 504)
    /\ call' = [call EXCEPT
           !.cells[n].pc = 507,
           !.cells[n].spikes_map =
               Pf1D_compute_spikes_map(call.cells[n].spk_x, call.xbin, None).spikes_map,
           !.cells[n].unsmoothed_spikes_map =
               Pf1D_compute_spikes_map(call.cells[n].spk_x, call.xbin, None).unsmoothed_spikes_map]
    /\ UNCHANGED <<session, pfs, ret>>

\* line 507: occupancy[occupancy == 0.0] = np.nan
Line507(n) ==
    /\ At(n, 507)
    /\ call' = [call EXCEPT !.cells[n].pc = 508, !.occupancy = ZerosToNaN(call.occupancy)]
    /\ UNCHANGED <<session, pfs, ret>>

\* lines 508-509
Line508(n) ==
    /\ At(n, 508)
    /\ call' = [call EXCEPT
           !.cells[n].pc = 510,
           !.cells[n].never_smoothed =
               DividedByFound(call.cells[n].unsmoothed_spikes_map, call.occupancy)]
    /\ UNCHANGED <<session, pfs, ret>>

\* lines 510-511
Line510(n) ==
    /\ At(n, 510)
    /\ call' = [call EXCEPT
           !.cells[n].pc = 512,
           !.cells[n].unsmoothed = DividedByFound(call.cells[n].spikes_map, call.occupancy)]
    /\ UNCHANGED <<session, pfs, ret>>

\* line 512: occupancy[np.isnan(occupancy)] = 0.0, and the return
Line512(n) ==
    /\ At(n, 512)
    /\ call' = [call EXCEPT !.cells[n].pc = 522, !.occupancy = NaNToZeros(call.occupancy)]
    /\ UNCHANGED <<session, pfs, ret>>

NextLoop ==
    \E n \in 1..2 : Line504(n) \/ Line507(n) \/ Line508(n) \/ Line510(n) \/ Line512(n)

SpecLoop == InitLoop /\ [][NextLoop]_vars

\* what the call of the neuron returns when the loop runs the calls one after another
Sequential(n) == Pf1D_compute_tuning_map(call.cells[n].spk_x, call.xbin, call.held, None)

\* C16: the per-neuron computations of compute share the occupancy map
\* read-only, so with their steps interleaved every neuron's result equals the
\* result of the sequential run
C16_InterleavedEqualsSequential ==
    \A n \in 1..2 :
        At(n, 522) =>
            /\ call.cells[n].never_smoothed = Sequential(n).never_smoothed
            /\ call.cells[n].unsmoothed = Sequential(n).tuning

(***************************************************************************)
(* Persistence (SpecPersist): a computed set is saved and restored, by     *)
(* __getstate__ / __setstate__ or by to_hdf / read_hdf.  The collaborators *)
(* (position, epochs, spikes) are taken to come back from the file as they *)
(* were written, and every attribute of the group with the value given it. *)
(***************************************************************************)
\* attrs.asdict without the two peak-filter fields (the projector is the
\* selection by included_thresh_neurons_indx and has no field of its own here)
to_dict(self) == [f \in DOMAIN self \ {"included_thresh_neurons_indx"} |-> self[f]]

\* __setstate__: the state becomes the object's fields, the peak-filter fields are None
setstate(state) ==
    [f \in DOMAIN state \cup {"included_thresh_neurons_indx"} |->
        IF f = "included_thresh_neurons_indx" THEN None ELSE state[f]]

\* what to_hdf leaves under the key
to_hdf(self) ==
    IF self.position = None \/ self.spikes_df = None \/ self.ratemap = None
    THEN Raised("AttributeError", self)
    ELSE Returned([pos |-> Val(self.position), epochs |-> self.epochs,
                   spikes |-> Val(self.spikes_df), ratemap |-> self.ratemap,
                   position_srate |-> self.position_srate, ndim |-> self.ndim,
                   speed_thresh |-> self.config.speed_thresh,
                   grid_bin |-> self.config.grid_bin,
                   grid_bin_bounds |-> self.config.grid_bin_bounds,
                   smooth |-> self.config.smooth,
                   frate_thresh |-> self.config.frate_thresh])

read_hdf(file) ==
    PfND(file.spikes, file.pos, file.epochs,
         PlacefieldComputationParameters(file.speed_thresh, file.grid_bin,
             file.grid_bin_bounds, file.smooth, file.frate_thresh))

\* PfND(...) over a session, with is_directional as the configuration is given it
SetOver(s, ndim, g, epochs, is_directional) ==
    PfND(s.spikes_df, IF ndim = 1 THEN drop_dimensions_above_1(s.position) ELSE s.position, epochs,
         [PlacefieldComputationParameters(s.speed_thresh, <<F(g), F(g)>>, s.grid_bin_bounds,
              s.smooth, s.frate_thresh) EXCEPT !.is_directional = is_directional])

\* the sets that are saved, as constructed
BuiltSets ==
    {r.self : r \in {b \in {SetOver(s, ndim, g, epochs, d) :
                               s \in Sessions, ndim \in 1..2, g \in 1..2,
                               epochs \in EpochChoices \ {None}, d \in BOOLEAN} :
                        b.raised = None}}

\* the sets of bin size 2 conformed to the sets of bin size 1 and of their dimensionality
ConformedSets(sets) ==
    {c.self : c \in {r \in {conform_to_position_bins(pair[1], pair[2], FALSE) :
                               pair \in {pq \in sets \X sets :
                                            /\ pq[1].config.grid_bin[1] = F(2)
                                            /\ pq[2].config.grid_bin[1] = F(1)
                                            /\ pq[1].ndim = pq[2].ndim}} :
                        r.raised = None /\ r.did_update_bins}}

PersistSets == BuiltSets \cup ConformedSets(BuiltSets)

InitPersist ==
    /\ \E pf \in PersistSets : call = [fn |-> "persist", stage |-> 0, pf |-> pf, result |-> None]
    /\ session = None /\ pfs = None /\ ret = None

\* pickle: __setstate__ of what __getstate__ gave
Call_setstate ==
    /\ call.fn = "persist" /\ call.stage = 0
    /\ call' = [call EXCEPT !.fn = "__setstate__", !.stage = 1,
                            !.result = Returned(setstate(to_dict(call.pf)))]
    /\ UNCHANGED <<session, pfs, ret>>

\* nothing is read when to_hdf raised
ReadBack(written) == IF written.raised # None THEN written ELSE read_hdf(written.self)

\* read_hdf of what to_hdf wrote
Call_read_hdf ==
    /\ call.fn = "persist" /\ call.stage = 0
    /\ call' = [call EXCEPT !.fn = "read_hdf", !.stage = 1,
                            !.result = ReadBack(to_hdf(call.pf))]
    /\ UNCHANGED <<session, pfs, ret>>

NextPersist == Call_setstate \/ Call_read_hdf

SpecPersist == InitPersist /\ [][NextPersist]_vars

Restored == call.fn \in {"__setstate__", "read_hdf"} /\ call.stage = 1 /\ call.result.raised = None

\* C17: a set restored by __setstate__ or by read_hdf has the included indices
\* (and with them the projector) of the set that was saved: they are left out
\* of the persisted state and recomputed on load
C17_PeakFilterRecomputedOnLoad ==
    Restored =>
        /\ "included_thresh_neurons_indx" \notin DOMAIN to_dict(call.pf)
        /\ call.result.self.included_thresh_neurons_indx = call.pf.included_thresh_neurons_indx

\* C18: read_hdf of what to_hdf wrote yields a set with the saved set's
\* configuration (is_directional included), bin edges and bin metadata, also
\* when the bins were adopted through conform_to_position_bins
C18_HdfRoundTrip ==
    (Restored /\ call.fn = "read_hdf") =>
        /\ call.result.self.config = call.pf.config
        /\ call.result.self.xbin = call.pf.xbin
        /\ call.result.self.ybin = call.pf.ybin
        /\ call.result.self.bin_info = call.pf.bin_info

(***************************************************************************)
(* The directional merge on its own (SpecMerge): the dict handed to        *)
(* build_merged_directional_placefields holds no, one or two computed      *)
(* sets, of either dimensionality, bin size and sampling rate.             *)
(***************************************************************************)
\* the computed sets a caller may hand over
MergeSources ==
    {r.self : r \in {b \in {SetOver([s EXCEPT !.position.sampling_rate = srate], ndim, g,
                                    epochs, FALSE) :
                               s \in Sessions, srate \in 1..2, ndim \in 1..2, g \in 1..2,
                               epochs \in EpochChoices \ {None}} :
                        b.raised = None}}

\* a mutant of InputsAfterMerge: the routine recomputes the caller's sets in place
InputsRecomputedInPlace(input_unidirectional_decoder_dict) ==
    [k \in 1..Len(input_unidirectional_decoder_dict) |->
        compute([input_unidirectional_decoder_dict[k] EXCEPT !.config.frate_thresh = Zero])]

\* line 1647: the routine works on a deep copy of the dict, the caller's sets stay as given
InputsAfterMerge(input_unidirectional_decoder_dict) == input_unidirectional_decoder_dict

InitMerge ==
    /\ \E given \in {<<>>} \cup {<<p>> : p \in MergeSources} \cup (MergeSources \X MergeSources) :
           call = [fn |-> "build_merged_directional_placefields", stage |-> 0,
                   given |-> given, decoders |-> given, result |-> None]
    /\ session = None /\ pfs = None /\ ret = None

Call_build_merged_directional_placefields ==
    /\ call.fn = "build_merged_directional_placefields" /\ call.stage = 0
    /\ call' = [call EXCEPT !.stage = 1,
                            !.decoders = InputsAfterMerge(call.decoders),
                            !.result = build_merged_directional_placefields(call.decoders)]
    /\ UNCHANGED <<session, pfs, ret>>

NextMerge == Call_build_merged_directional_placefields

SpecMerge == InitMerge /\ [][NextMerge]_vars

MergeReturned == call.fn = "build_merged_directional_placefields" /\ call.stage = 1

BinsDiffer(ds) == \E k \in 2..Len(ds) : ds[1].xbin # ds[k].xbin \/ ds[1].ybin # ds[k].ybin

NotAll1D(ds) == \E k \in 1..Len(ds) : Val(ds[k].ndim) # 1

\* the rates differ by more than one part in a hundred
RatesDiffer(ds) ==
    \E k \in 2..Len(ds) :
        100 * Abs(Val(ds[1].position_srate) - Val(ds[k].position_srate)) > Abs(Val(ds[k].position_srate))

\* C19: build_merged_directional_placefields fails with an error and gives no
\* merged set when the sources do not all have identical bin edges, are not all
\* 1-D, differ in sampling rate by more than the tolerance, or are none at
\* all; with or without an error the caller's sets are as they were given
C19_MergePrecondition ==
    MergeReturned =>
        /\ (BinsDiffer(call.given) \/ NotAll1D(call.given) \/ RatesDiffer(call.given)
              \/ call.given = <<>>)
                => (call.result.raised # None /\ call.result.self = None)
        /\ call.decoders = call.given

\* two 1-D sets of identical bins whose sampling rates are 1 and 2: the merge failed
C19_Witness ==
    /\ MergeReturned /\ Len(call.given) = 2
    /\ ~BinsDiffer(call.given) /\ ~NotAll1D(call.given) /\ RatesDiffer(call.given)
    /\ call.result.raised = Some("AssertionError")
    /\ call.decoders = call.given

\* slice k, along the last axis, of a map stacked by the merge
SliceOf(stacked, k) ==
    ArrayOf(<<stacked.shape[1]>>,
            [ix \in Indices(<<stacked.shape[1]>>) |-> stacked.data[<<ix[1], k>>]])

\* the map of a kind that a ratemap holds for a neuron, all zeros when it holds none
MapFor(a_ratemap, kind, aclu) ==
    IF \E i \in 1..Len(a_ratemap.neuron_ids) : a_ratemap.neuron_ids[i] = aclu
    THEN a_ratemap[kind][CHOOSE i \in 1..Len(a_ratemap.neuron_ids) : a_ratemap.neuron_ids[i] = aclu]
    ELSE ArrayOf(<<Len(a_ratemap.xbin) - 1>>, [ix \in Indices(<<Len(a_ratemap.xbin) - 1>>) |-> Zero])

IdsOf(a_ratemap) == {a_ratemap.neuron_ids[i] : i \in 1..Len(a_ratemap.neuron_ids)}

\* the merged ratemap enumerates the given ratemaps along its last axis
MergedFrom(merged, ratemaps) ==
    /\ IdsOf(merged) = UNION {IdsOf(ratemaps[k]) : k \in 1..Len(ratemaps)}
    /\ Cardinality(IdsOf(merged)) = Len(merged.neuron_ids)
    /\ \A k \in 1..Len(ratemaps) :
          /\ SliceOf(merged.occupancy, k) = ratemaps[k].occupancy
          /\ \A n \in 1..Len(merged.neuron_ids) :
                \A kind \in {"tuning_curves", "unsmoothed_tuning_maps", "spikes_maps"} :
                    SliceOf(merged[kind][n], k) = MapFor(ratemaps[k], kind, merged.neuron_ids[n])

Merged == MergeReturned /\ call.result.raised = None

\* the ratemaps of the sources recomputed with no peak-rate threshold
ThresholdFree(ds) ==
    [k \in 1..Len(ds) |-> Val(compute([ds[k] EXCEPT !.config.frate_thresh = Zero]).ratemap)]

SetupPosition(fast, nan_at) ==
    [ndim |-> 2, sampling_rate |-> 1,
     df |-> [i \in 1..SessionTicks |->
                [t |-> i, x |-> IF i = nan_at THEN NaN ELSE F(i - 1), y |-> F(2 * (i % 2)),
                 speed |-> IF i \in fast THEN 10 ELSE 2]]]

SetupSessions ==
    {[position |-> SetupPosition(fast, nan_at), spikes_df |-> spikes_df,
      speed_thresh |-> speed_thresh, smooth |-> <<0, 0>>, frate_thresh |-> Frac(1, 2),
      grid_bin_bounds |-> <<None, None>>] :
        fast \in {{}, {2}, 1..SessionTicks}, nan_at \in {0, 2},
        spikes_df \in {SessionSpikes(1), <<[t |-> 2, aclu |-> 1]>>, <<>>},
        speed_thresh \in {None, Some(5)}}

InitSetup ==
    /\ \E s \in SetupSessions, ndim \in 1..2, epochs \in EpochChoices :
           call = [fn |-> "PfND", stage |-> 0, session |-> s, ndim |-> ndim,
                   epochs |-> epochs, result |-> None]
    /\ session = None /\ pfs = None /\ ret = None

Call_PfND ==
    /\ call.fn = "PfND" /\ call.stage = 0
    /\ call' = [call EXCEPT !.stage = 1,
                            !.result = SetOver(call.session, call.ndim, 1, call.epochs, FALSE)]
    /\ UNCHANGED <<session, pfs, ret>>

NextSetup == Call_PfND

SpecSetup == InitSetup /\ [][NextSetup]_vars

PfNDReturned == call.fn = "PfND" /\ call.stage = 1

\* C21: the constructor gives no set when the filtering left no position sample
\* or no spike: it fails instead
C21_EmptyDataFails ==
    (PfNDReturned /\ call.result.raised = None) =>
        /\ Val(call.result.self.filtered_pos_df) # <<>>
        /\ Val(call.result.self.filtered_spikes_df) # <<>>

\* C28: the filtered position stream of a set that setup built holds no sample
\* with an undefined x (or, in 2-D, y): the rows dropped before the speed
\* filter do not come back with the re-slicing by the speed-filtered epochs
C28_NoUndefinedCoordinates ==
    (PfNDReturned /\ call.result.self.filtered_pos_df # None) =>
        \A r \in 1..Len(Val(call.result.self.filtered_pos_df)) :
            /\ ~IsNaN(Val(call.result.self.filtered_pos_df)[r].x)
            /\ call.ndim > 1 => ~IsNaN(Val(call.result.self.filtered_pos_df)[r].y)

\* C29: constructed with epochs = None, the set is restricted to the time
\* range of the position trace, speed-filtered and computed, without an error
C29_SetupWithoutEpochs ==
    (PfNDReturned /\ call.epochs = None) =>
        /\ call.result.raised = None
        /\ call.result.self.ratemap # None

(***************************************************************************)
(* The helper routines on their own: _normalized_occupancy,                *)
(* PlacefieldComputationParameters and the pseudo-2D directional positions. *)
(***************************************************************************)
RECURSIVE SumOver(_, _)
SumOver(data, ixs) ==
    IF ixs = {} THEN Zero
    ELSE LET ix == CHOOSE i \in ixs : TRUE
         IN  FAdd(IF IsNaN(data[ix]) THEN Zero ELSE data[ix], SumOver(data, ixs \ {ix}))

\* a mutant of NanSum: the largest entry is taken for the sum
NanSumIsNanMax(a) == NanMax(a)

\* np.nansum(a): the sum of the entries that are not NaN
NanSum(a) == SumOver(a.data, Indices(a.shape))

\* both values _normalized_occupancy returns
normalized_occupancy_pair(raw_occupancy, position_srate) ==
    [seconds_occupancy |-> normalized_occupancy(raw_occupancy, position_srate),
     normalized_occupancy |->
         ArrayOf(raw_occupancy.shape, [ix \in Indices(raw_occupancy.shape) |->
             DivPlusEps(raw_occupancy.data[ix], NanSum(raw_occupancy))])]

\* raw occupancies: numbers of position samples per bin
RawOccupancies ==
    {ArrayOf(<<NBins>>, d) : d \in [Indices(<<NBins>>) -> {F(0), F(1), F(2)}]}
        \cup {ArrayOf(Shape2D, d) : d \in [Indices(Shape2D) -> {F(0), F(1)}]}

\* a Python scalar, tuple or list as a constructor argument
Scalar(v) == [kind |-> "scalar", items |-> <<v>>]

Tuple(items) == [kind |-> "tuple", items |-> items]

List(items) == [kind |-> "list", items |-> items]

\* if not isinstance(v, (tuple, list)): v = (v, v)
TupleOfTwo(v) == IF v.kind = "scalar" THEN Tuple(<<v.items[1], v.items[1]>>) ELSE v

\* to_dict() of the configuration __init__ builds from the arguments: the
\* attributes under their names, each value with its Python type
PlacefieldComputationParameters_to_dict(speed_thresh, grid_bin, grid_bin_bounds, smooth, frate_thresh) ==
    [speed_thresh |-> speed_thresh, grid_bin |-> TupleOfTwo(grid_bin),
     grid_bin_bounds |-> TupleOfTwo(grid_bin_bounds), smooth |-> TupleOfTwo(smooth),
     frate_thresh |-> frate_thresh, is_directional |-> FALSE]

\* hash(tuple(names + values)): TypeError when a value is a list; the hash of
\* a tuple is a function of its contents, written here as the contents
PlacefieldComputationParameters_hash(self) ==
    IF "list" \in {self.grid_bin.kind, self.grid_bin_bounds.kind, self.smooth.kind}
    THEN [raised |-> Some("TypeError"), value |-> None]
    ELSE [raised |-> None,
          value |-> Some(<<self.speed_thresh, self.grid_bin.items, self.grid_bin_bounds.items,
                           self.smooth.items, self.frate_thresh, self.is_directional>>)]

\* self.to_dict() == other.to_dict(): a tuple and a list never compare equal
PlacefieldComputationParameters_eq(self, other) == self = other

\* the grid_bin / smooth arguments of the constructor calls
GridBinArgs == {Scalar(2), Tuple(<<2, 2>>), Tuple(<<2, 3>>), List(<<2, 2>>)}

SmoothArgs == {Scalar(1), Tuple(<<1, 1>>), List(<<1, 1>>)}

ConfigArgs ==
    {[grid_bin |-> g, smooth |-> sm] : g \in GridBinArgs, sm \in SmoothArgs}

\* lines 1540-1544: y is -1, then for the i-th decoder in turn (i from 0) the
\* rows lying in one of its epochs get y = i + 1 (here i counts from 1: y = i)
RECURSIVE PseudoYFrom(_, _, _)
PseudoYFrom(df, decoders, i) ==
    IF i > Len(decoders) THEN df
    ELSE LET ids == add_epochs_id_identity(df, decoders[i].epochs)
         IN  PseudoYFrom(Eager([r \in 1..Len(df) |->
                                  IF ids[r] # -1 THEN [df[r] EXCEPT !.y = F(i)] ELSE df[r]]),
                         decoders, i + 1)

\* the decoders hold the position stream of one session, so the concatenation
\* sorted by t with duplicate t dropped is the stream of the first
build_pseduo_2D_directional_placefield_positions(decoders) ==
    PseudoYFrom(Eager([r \in 1..Len(decoders[1].position) |->
                         [decoders[1].position[r] EXCEPT !.y = F(-1)]]),
                decoders, 1)

\* number of position samples of the directional decoders (one per tick)
DecoderTicks == 7

\* the epochs a directional decoder can have: one lap each, the last tick in no lap
LapEpochs == {<<[start |-> 1, stop |-> 3]>>, <<[start |-> 3, stop |-> 5]>>,
              <<[start |-> 5, stop |-> 7]>>}

\* lists of one to three decoders over distinct laps of one position stream
DirectionalDecoderLists ==
    {d \in UNION {[1..n -> [position : {[t \in 1..DecoderTicks |->
                                             [t |-> t, x |-> F(t % 3), y |-> NaN]]},
                            epochs : LapEpochs]] : n \in 1..3} :
        \A i, j \in 1..Len(d) : i # j => d[i].epochs # d[j].epochs}

HelperCalls ==
    {[fn |-> "_normalized_occupancy", raw_occupancy |-> raw, position_srate |-> srate,
      stage |-> 0, result |-> None] : raw \in RawOccupancies, srate \in 1..2}
        \cup {[fn |-> "PlacefieldComputationParameters", a |-> a, b |-> b,
                stage |-> 0, result |-> None] : a \in ConfigArgs, b \in ConfigArgs}
        \cup {[fn |-> "_DEP_build_merged_directional_placefields", decoders |-> d,
                stage |-> 0, result |-> None] : d \in DirectionalDecoderLists}

InitHelpers == call \in HelperCalls /\ session = None /\ pfs = None /\ ret = None

Call_normalized_occupancy ==
    /\ call.fn = "_normalized_occupancy" /\ call.stage = 0
    /\ call' = [call EXCEPT !.stage = 1,
                    !.result = normalized_occupancy_pair(call.raw_occupancy, call.position_srate)]
    /\ UNCHANGED <<session, pfs, ret>>

\* two configurations are built, compared and hashed
Call_PlacefieldComputationParameters ==
    /\ call.fn = "PlacefieldComputationParameters" /\ call.stage = 0
    /\ LET self == PlacefieldComputationParameters_to_dict(3, call.a.grid_bin, Scalar(None),
                                                           call.a.smooth, 1)
           other == PlacefieldComputationParameters_to_dict(3, call.b.grid_bin, Scalar(None),
                                                            call.b.smooth, 1)
       IN  call' = [call EXCEPT !.stage = 1,
                        !.result = [self |-> self, other |-> other,
                                    eq |-> PlacefieldComputationParameters_eq(self, other),
                                    hash_self |-> PlacefieldComputationParameters_hash(self),
                                    hash_other |-> PlacefieldComputationParameters_hash(other)]]
    /\ UNCHANGED <<session, pfs, ret>>

\* the pseudo-2D position stream and the edges of the pseudo dimension the
\* merge hands to PfND (ybin = np.arange(n + 1)), with the pseudo-dimension bin
\* np.histogram2d counts each sample in (0: in no bin)
Call_DEP_build_merged_directional_placefields ==
    /\ call.fn = "_DEP_build_merged_directional_placefields" /\ call.stage = 0
    /\ LET position == build_pseduo_2D_directional_placefield_positions(call.decoders)
           ybin == UnitEdges(Len(call.decoders))
       IN  call' = [call EXCEPT !.stage = 1,
                        !.result = [position |-> position, ybin |-> ybin,
                                    binned_y |-> Eager([r \in 1..Len(position) |->
                                                          BinIndex(position[r].y, ybin)])]]
    /\ UNCHANGED <<session, pfs, ret>>

NextHelpers ==
    \/ Call_normalized_occupancy
    \/ Call_PlacefieldComputationParameters
    \/ Call_DEP_build_merged_directional_placefields

SpecHelpers == InitHelpers /\ [][NextHelpers]_vars

NormalizedReturned == call.fn = "_normalized_occupancy" /\ call.stage = 1

AllZero(a) == \A ix \in Indices(a.shape) : a.data[ix] = Zero

\* np.sum(a): NaN when an entry is NaN
ArrSum(a) ==
    IF \E ix \in Indices(a.shape) : IsNaN(a.data[ix]) THEN NaN
    ELSE SumOver(a.data, Indices(a.shape))

PeakThresholds == {F(0), Frac(1, 2), F(1), F(2)}

IndexSet(result) == {result[j] : j \in 1..Len(result)}

\* C23: for the maps of a peak-filter call, the indices returned at a
\* threshold are a subset of the indices returned at every lower threshold
\* (and a superset of those returned at every higher one)
C23_PeakFilterMonotone ==
    PeakReturned =>
        \A t \in PeakThresholds :
            /\ FLt(t, call.frate_thresh) =>
                   IndexSet(call.result)
                       \subseteq IndexSet(build_peak_frate_filter(call.tuning_maps, t))
            /\ FLt(call.frate_thresh, t) =>
                   IndexSet(build_peak_frate_filter(call.tuning_maps, t))
                       \subseteq IndexSet(call.result)

\* a call returns one neuron and leaves out another that a lower threshold includes
C23_Witness ==
    /\ PeakReturned
    /\ call.result # <<>>
    /\ \E t \in PeakThresholds :
           /\ FLt(t, call.frate_thresh)
           /\ IndexSet(build_peak_frate_filter(call.tuning_maps, t)) # IndexSet(call.result)

ConfigReturned == call.fn = "PlacefieldComputationParameters" /\ call.stage = 1

\* the values of the fields, whatever the argument was written as (a scalar
\* v stands for the pair (v, v))
SameFieldValues(a, b) ==
    /\ TupleOfTwo(a.grid_bin) = TupleOfTwo(b.grid_bin)
    /\ TupleOfTwo(a.smooth) = TupleOfTwo(b.smooth)

\* C24: two configurations built from the same field values compare equal and
\* have equal hashes, two that differ in a field compare unequal, and every
\* configuration the constructor accepts (list-valued fields included) can be hashed
C24_ConfigValueSemantics ==
    ConfigReturned =>
        /\ call.result.hash_self.raised = None
        /\ call.result.hash_other.raised = None
        /\ SameFieldValues(call.a, call.b) =>
               call.result.eq /\ call.result.hash_self.value = call.result.hash_other.value
        /\ ~SameFieldValues(call.a, call.b) => ~call.result.eq

\* the sigma of a call with its components in the other order (a 1-D sigma is itself)
SigmaFlipped(smooth) == IF Len(smooth) = 2 THEN <<smooth[2], smooth[1]>> ELSE smooth

\* C25: the final tuning map a routine returns is the Gaussian-smoothed
\* occupancy-weighted map when the sigma of the call has at least one
\* positive component (whichever axis each component is applied along), and
\* is the unsmoothed occupancy-weighted map otherwise
C25_SmoothedWhenAnySigmaPositive ==
    TuningReturned =>
        IF AnyPositive(call.smooth)
        THEN call.result.tuning
                 \in {GaussianFilter(call.result.never_smoothed, call.smooth),
                      GaussianFilter(call.result.never_smoothed, SigmaFlipped(call.smooth))}
        ELSE call.result.tuning = call.result.never_smoothed

\* C26: a Pf2D tuning-map call returns what the PlacefieldND routine returns
\* for the same spikes, bin edges, occupancy and sigma pair
C26_Pf2DEqualsPlacefieldND ==
    (TuningReturned /\ call.fn = "Pf2D") =>
        call.result = PlacefieldND_compute_tuning_map(call.spikes, call.bins,
                                                      call.occupancy, call.smooth)

\* C27: whenever conform_to_position_bins(target) returns, the bin edges of
\* the set are the target's in every dimension, its maps are over those
\* edges, and the target set is as it was
C27_ConformPostcondition ==
    [][\A slot, target \in {"a", "b"} :
          ConformReturned(slot, target) =>
              /\ Val(pfs'[slot]).xbin = Val(pfs[target]).xbin
              /\ Val(pfs'[slot]).ybin = Val(pfs[target]).ybin
              /\ Val(Val(pfs'[slot]).ratemap).xbin = Val(pfs[target]).xbin
              /\ MapsShaped(Val(Val(pfs'[slot]).ratemap), ShapeOfBins(Val(pfs[target])))
              /\ slot # target => pfs'[target] = pfs[target]]_vars

DirectionalReturned == call.fn = "_DEP_build_merged_directional_placefields" /\ call.stage = 1

\* the decoders (by position in the list) whose epochs hold the sample of row r
SourcesOf(r) ==
    {i \in 1..Len(call.decoders) :
         EpochIdOf(call.result.position[r].t, call.decoders[i].epochs) # -1}

\* C30: samples of two different source sets fall in two different bins of the
\* pseudo dimension, no sample of a source falls outside the edges, and a
\* sample of no source falls in no bin
C30_DistinctPseudoBins ==
    DirectionalReturned =>
        LET rows == 1..Len(call.result.position)
        IN  /\ \A r1, r2 \in rows :
                   (SourcesOf(r1) # {} /\ SourcesOf(r2) # {} /\ SourcesOf(r1) # SourcesOf(r2))
                       => call.result.binned_y[r1] # call.result.binned_y[r2]
            /\ \A r \in rows : SourcesOf(r) # {} => call.result.binned_y[r] # 0
            /\ \A r \in rows : SourcesOf(r) = {} => call.result.binned_y[r] = 0

====
